---- MODULE Spec2Model ----
(***************************************************************************)
(* A model of the competitor-analysis pipeline of backend/agent:           *)
(* CompetitorAnalysisAgent (generate_search_queries, search_competitors,   *)
(* search_single_query, search_all_parallel, extract_competitor_info,      *)
(* merge_and_deduplicate_competitors, run).                                *)
(*                                                                         *)
(* Strings are sequences of characters; a character is a one-token TLA+    *)
(* string.  The fixed Chinese literals the code splices in are single      *)
(* tokens with ASCII names ("<jingpin>", "<gongneng...>"); the full-width  *)
(* comma U+FF0C is the token "<fwcomma>".  Python's None is the record     *)
(* None.                                                                   *)
(***************************************************************************)
EXTENDS Integers, Sequences, FiniteSets, TLC

VARIABLES
    pc,             \* position of the orchestrating thread
    domain,         \* argument domain: Optional[str]
    features,       \* argument features: Optional[str]
    product_name,   \* argument product_name: str
    llmKind,        \* what the last chat_completion call did
    llmCalls,       \* number of chat_completion calls made
    all_queries,    \* value returned by generate_search_queries
    fut,            \* search_all_parallel: state of each submitted future
    provider,       \* search_all_parallel: what the provider did per query
    results,        \* search_all_parallel: the list `results`
    urls,           \* run: the urls handed to read_urls
    web_ok,         \* run: urls whose WebContent has success == True
    extracted,      \* run: list returned by extract_competitor_info
    result,         \* run: the returned result object
    raised,         \* exception that left the operation, "" when none
    all_competitors,\* merge: the argument list
    merged,         \* merge: the returned list
    remerged,       \* merge: the list returned for the returned list
    validated,      \* validate_competitors: the returned list
    competitors,    \* enrich_competitors: the argument list
    sfut,           \* enrich: state of each search future
    found,          \* enrich: what the provider did for each competitor
    search_results_map, \* enrich: name -> search results
    efut,           \* enrich: state of each extraction future
    outcome,        \* enrich: what each extraction worker ended with
    enriched,       \* enrich: the list `enriched`
    order,          \* enrich: index in competitors of each entry of enriched
    competitor_data,\* extract_competitor_info: the argument list
    response,       \* extract_competitor_info: what chat_completion did
    failing,        \* urls of the sources on which the LLM fails
    url_list,       \* read_urls: the argument list
    rfut,           \* read_urls: state of each submitted future
    fetched,        \* read_urls: what each _fetch_content call did
    web_contents,   \* read_urls: the list `results`
    endpoint,       \* api: the endpoint that serves the request
    events,         \* api: the events the stream has emitted
    http,           \* api: status code of the synchronous answer, 0 before
    pool,           \* a ThreadPoolExecutor: its stage and max_workers
    tasks           \* a ThreadPoolExecutor: state of each submitted call

vars == <<pc, domain, features, product_name, llmKind, llmCalls, all_queries,
          fut, provider, results, urls, web_ok, extracted, result, raised,
          all_competitors, merged, remerged, validated,
          competitors, sfut, found, search_results_map, efut, outcome,
          enriched, order, competitor_data, response, failing,
          url_list, rfut, fetched, web_contents, endpoint, events, http,
          pool, tasks>>

genVars == <<domain, features, product_name, llmKind, llmCalls, all_queries>>
searchVars == <<fut, provider, results>>
runVars == <<urls, web_ok, extracted, result>>
mergeVars == <<all_competitors, merged, remerged>>
enrichVars == <<competitors, sfut, found, search_results_map, efut, outcome,
                enriched, order>>
extractVars == <<competitor_data, response, failing>>
readVars == <<url_list, rfut, fetched, web_contents>>
apiVars == <<endpoint, events, http>>
poolVars == <<pool, tasks>>
otherVars == <<extractVars, readVars, apiVars, poolVars>>
stageVars == <<validated, enrichVars, otherVars>>

-----------------------------------------------------------------------------
(* Strings *)

None == [isNone |-> TRUE, s |-> <<>>]
Str(s) == [isNone |-> FALSE, s |-> s]

\* Python truthiness of an Optional[str]: None and "" are falsy.
Falsy(o) == o.isNone \/ o.s = <<>>

\* The characters str.strip() removes.
Whitespace == {" "}

\* The separators of re.split(r'[,<U+FF0C>]', features).
Separators == {",", "<fwcomma>"}

RECURSIVE LStrip(_)
LStrip(s) ==
    IF s # <<>> /\ Head(s) \in Whitespace THEN LStrip(Tail(s)) ELSE s

RECURSIVE RStrip(_)
RStrip(s) ==
    IF s # <<>> /\ s[Len(s)] \in Whitespace
    THEN RStrip(SubSeq(s, 1, Len(s) - 1))
    ELSE s

Strip(s) == RStrip(LStrip(s))

\* re.split on single-character separators: the pieces, empty ones included.
RECURSIVE ReSplit(_)
ReSplit(s) ==
    IF s = <<>> THEN << <<>> >>
    ELSE LET rest == ReSplit(Tail(s))
         IN  IF Head(s) \in Separators
             THEN << <<>> >> \o rest
             ELSE << <<Head(s)>> \o Head(rest) >> \o Tail(rest)

\* sub in s, for strings.
Contains(sub, s) ==
    \E i \in 0..(Len(s) - Len(sub)) : SubSeq(s, i + 1, i + Len(sub)) = sub

RECURSIVE SeqFilterNonEmpty(_)
SeqFilterNonEmpty(ss) ==
    IF ss = <<>> THEN <<>>
    ELSE IF Head(ss) = <<>> THEN SeqFilterNonEmpty(Tail(ss))
         ELSE <<Head(ss)>> \o SeqFilterNonEmpty(Tail(ss))

SeqsUpTo(S, n) == UNION {[1..k -> S] : k \in 0..n}

-----------------------------------------------------------------------------
(* generate_search_queries: values *)

\* One element of a `queries` value.  shape is the element's JSON type; keys
\* are the keys of a dict element; type, name and query are the values under
\* those keys ("" and <<>> when the key is absent).
Elem(shape, keys, type, name, query) ==
    [shape |-> shape, keys |-> keys, type |-> type, name |-> name,
     query |-> query]

\* {"type": type, "name": name, "query": query}
QueryDict(type, name, query) ==
    Elem("dict", {"type", "name", "query"}, type, name, query)

\* The value bound to `queries`: a list, or whatever else the JSON held under
\* the key "queries" (a string iterates as its characters, each a bare
\* string; a number is truthy and has no len(); null is None).
QVal(kind, items) == [kind |-> kind, items |-> items]
QList(items) == QVal("list", items)

\* Python truthiness of a `queries` value.
QFalsy(q) == q.kind = "null" \/ (q.kind \in {"list", "string"} /\ q.items = <<>>)

\* f"{domain} {product_name} <jingpin>"
DomainFallbackQueryNoProduct(d, p) == d \o <<" ", "<jingpin>">>

DomainFallbackQuery(d, p) == d \o <<" ">> \o p \o <<" ", "<jingpin>">>

\* f"{f} <gongneng de chanpin you naxie>"
FeatureFallbackQuery(f) == f \o <<" ", "<gongneng-de-chanpin-you-naxie>">>

\* The except branch of generate_search_queries.
FallbackQueries(d, f, p) ==
    LET pieces == ReSplit(f.s)
        names  == SeqFilterNonEmpty([i \in 1..Len(pieces) |-> Strip(pieces[i])])
    IN  (IF ~Falsy(d)
         THEN <<QueryDict("domain", d.s, DomainFallbackQuery(d.s, p))>>
         ELSE <<>>)
        \o
        (IF ~Falsy(f)
         THEN [i \in 1..Len(names) |->
                  QueryDict("feature", names[i], FeatureFallbackQuery(names[i]))]
         ELSE <<>>)

-----------------------------------------------------------------------------
(* generate_search_queries: the LLM response and its parsing              *)
(*                                                                         *)
(* A response is a sequence of tokens: "fence_json" is the text ```json,   *)
(* "fence" is ```, "nl" is one whitespace character, "txt" is prose of two *)
(* or more non-blank characters, and "json" is the text of one JSON        *)
(* document, whose parsed value is the token's payload.                    *)

Payload(top, hasQueries, queries) ==
    [top |-> top, hasQueries |-> hasQueries, queries |-> queries]

NoPayload == Payload("none", FALSE, QList(<<>>))

Tok(k) == [k |-> k, v |-> NoPayload]
JsonTok(p) == [k |-> "json", v |-> p]

\* "```" occurs in ```json as well as in a bare fence.
IsFence(t) == t.k \in {"fence", "fence_json"}

\* str.find at token level: least index >= from holding a token of kinds K,
\* 0 when there is none.
FindTok(ts, K, from) ==
    LET hits == {i \in from..Len(ts) : ts[i].k \in K}
    IN  IF hits = {} THEN 0 ELSE CHOOSE i \in hits : \A j \in hits : i <= j

\* s[:-1] at token level: the last character is dropped.  A one-character
\* token disappears; prose stays prose; a JSON document that lost its last
\* character no longer parses.
DropLastChar(ts) ==
    IF ts = <<>> THEN <<>>
    ELSE LET init == SubSeq(ts, 1, Len(ts) - 1)
             last == ts[Len(ts)]
         IN  IF last.k = "nl" THEN init ELSE init \o <<Tok("txt")>>

\* response[start:end] with start just after the opening fence at index i and
\* end = response.find("```", start); find's -1 is used as the slice's end.
AfterFence(ts, i) ==
    LET j == FindTok(ts, {"fence", "fence_json"}, i + 1)
    IN  IF j # 0 THEN SubSeq(ts, i + 1, j - 1)
        ELSE DropLastChar(SubSeq(ts, i + 1, Len(ts)))

\* Lines 87-94.
StripFence(ts) ==
    IF FindTok(ts, {"fence_json"}, 1) # 0
    THEN AfterFence(ts, FindTok(ts, {"fence_json"}, 1))
    ELSE IF FindTok(ts, {"fence", "fence_json"}, 1) # 0
         THEN AfterFence(ts, FindTok(ts, {"fence", "fence_json"}, 1))
         ELSE ts

RECURSIVE LStripNl(_)
LStripNl(ts) ==
    IF ts # <<>> /\ Head(ts).k = "nl" THEN LStripNl(Tail(ts)) ELSE ts

RECURSIVE RStripNl(_)
RStripNl(ts) ==
    IF ts # <<>> /\ ts[Len(ts)].k = "nl"
    THEN RStripNl(SubSeq(ts, 1, Len(ts) - 1))
    ELSE ts

\* json.loads: succeeds on exactly one JSON document with blanks around it.
JsonLoads(ts) ==
    LET core == RStripNl(LStripNl(ts))
    IN  IF Len(core) = 1 /\ core[1].k = "json"
        THEN [ok |-> TRUE, v |-> core[1].v]
        ELSE [ok |-> FALSE, v |-> NoPayload]

\* What chat_completion does: "raise", "nocontent" (message.content is
\* None) or "text".
Llm(kind, text) == [kind |-> kind, text |-> text]

\* Mutant: only None counts as empty, "" does not.
BothEmptyNoneOnly(d, f) == d.isNone /\ f.isNone

\* Line 49: not domain and not features.
BothEmpty(d, f) == Falsy(d) /\ Falsy(f)

\* generate_search_queries.  calls is the number of chat_completion calls,
\* ret the returned value.
GenerateSearchQueries(d, f, p, llm) ==
    IF BothEmpty(d, f) THEN [calls |-> 0, ret |-> QList(<<>>)]
    ELSE LET parsed == IF llm.kind = "text"
                       THEN JsonLoads(StripFence(llm.text))
                       ELSE [ok |-> FALSE, v |-> NoPayload]
         IN  IF parsed.ok /\ parsed.v.top = "object"
             THEN [calls |-> 1,
                   ret |-> IF parsed.v.hasQueries THEN parsed.v.queries
                           ELSE QList(<<>>)]
             ELSE [calls |-> 1, ret |-> QList(FallbackQueries(d, f, p))]

-----------------------------------------------------------------------------
(* Inputs of query generation *)

MaxFeatLen == 2
MaxLLMQueries == 2

Domains == {None, Str(<<>>), Str(<<"D">>), Str(<<"E", " ", "D">>)}
FeatureAlphabet == {"f", ",", "<fwcomma>", " "}
FeatureInputs ==
    {None} \cup {Str(s) : s \in SeqsUpTo(FeatureAlphabet, MaxFeatLen)}
Products == {<<"X">>, <<"P", "Q">>}

\* Shapes of element an LLM puts in its queries array.
EGood1 == QueryDict("domain", <<"n1">>, <<"q1">>)
EGood2 == QueryDict("feature", <<"n2">>, <<"q2">>)
EQueryOnly == Elem("dict", {"query"}, "", <<>>, <<"q3">>)
ETextOnly == Elem("dict", {"text"}, "", <<>>, <<>>)
EStr == Elem("str", {}, "", <<>>, <<>>)
ENum == Elem("num", {}, "", <<>>, <<>>)

GenElems == {EGood1, EQueryOnly, ETextOnly, EStr, ENum}

\* Parsed JSON documents an LLM may answer with, over the elements E.
Payloads(E) ==
    {Payload("object", TRUE, QList(items)) : items \in SeqsUpTo(E, MaxLLMQueries)}
    \cup {Payload("object", FALSE, QList(<<>>)),
          Payload("object", TRUE, QVal("string", <<EStr, EStr>>)),
          Payload("object", TRUE, QVal("number", <<>>)),
          Payload("object", TRUE, QVal("null", <<>>)),
          Payload("array", FALSE, QList(<<>>)),
          Payload("scalar", FALSE, QList(<<>>))}

\* Texts an LLM may wrap the document p in.
Responses(p) ==
    {<<JsonTok(p)>>,
     <<>>,
     <<Tok("txt")>>,
     <<Tok("txt"), JsonTok(p)>>,
     <<Tok("fence_json"), Tok("nl"), JsonTok(p), Tok("nl"), Tok("fence")>>,
     <<Tok("txt"), Tok("fence_json"), JsonTok(p), Tok("fence"), Tok("txt")>>,
     <<Tok("fence"), JsonTok(p), Tok("fence")>>,
     <<Tok("fence"), JsonTok(p), Tok("fence_json")>>,
     <<Tok("fence_json"), JsonTok(p)>>,
     <<Tok("fence_json"), JsonTok(p), Tok("nl")>>,
     <<Tok("fence_json"), Tok("txt"), Tok("fence")>>}

LlmOutcomes(E) ==
    {Llm("raise", <<>>), Llm("nocontent", <<>>)}
    \cup {Llm("text", t) : t \in UNION {Responses(p) : p \in Payloads(E)}}

-----------------------------------------------------------------------------
(* Idle values of the variables an operation does not use *)

NoResult ==
    [returned |-> FALSE, domain |-> None, features |-> None,
     product_name |-> <<>>, queries |-> <<>>, competitors |-> <<>>,
     total_count |-> 0]

IdleGen ==
    /\ domain = None /\ features = None /\ product_name = <<>>
    /\ llmKind = "nocall" /\ llmCalls = 0 /\ all_queries = QList(<<>>)
IdleSearch == fut = <<>> /\ provider = <<>> /\ results = <<>>
IdleRun == urls = {} /\ web_ok = {} /\ extracted = <<>> /\ result = NoResult
IdleMerge == all_competitors = <<>> /\ merged = <<>> /\ remerged = <<>>
EmptyMap == [n \in {} |-> <<>>]
IdleEnrich ==
    /\ competitors = <<>> /\ sfut = <<>> /\ found = <<>>
    /\ search_results_map = EmptyMap
    /\ efut = <<>> /\ outcome = <<>> /\ enriched = <<>> /\ order = <<>>
NoResponse ==
    [kind |-> "none", text |-> <<>>, doc |-> <<>>, wrapper |-> "none",
     whole |-> FALSE]
IdleExtract == competitor_data = <<>> /\ response = NoResponse /\ failing = {}
IdleRead ==
    url_list = <<>> /\ rfut = <<>> /\ fetched = <<>> /\ web_contents = <<>>
IdleApi == endpoint = "none" /\ events = <<>> /\ http = 0
NoPool == [stage |-> "none", max_workers |-> 0]
IdlePool == pool = NoPool /\ tasks = <<>>
IdleOther == IdleExtract /\ IdleRead /\ IdleApi /\ IdlePool
IdleStages == validated = <<>> /\ IdleEnrich /\ IdleOther

-----------------------------------------------------------------------------
(* SpecGen: one call of generate_search_queries *)

InitGen ==
    /\ pc = "gen"
    /\ domain \in Domains
    /\ features \in FeatureInputs
    /\ product_name \in Products
    /\ llmKind = "nocall" /\ llmCalls = 0 /\ all_queries = QList(<<>>)
    /\ raised = ""
    /\ IdleSearch /\ IdleRun /\ IdleMerge /\ IdleStages

\* The call, with whatever the LLM does.
Generate ==
    /\ pc = "gen"
    /\ \E llm \in LlmOutcomes(GenElems) :
         LET r == GenerateSearchQueries(domain, features, product_name, llm)
         IN  /\ all_queries' = r.ret
             /\ llmCalls' = llmCalls + r.calls
             /\ llmKind' = IF r.calls = 0 THEN "nocall" ELSE llm.kind
    /\ pc' = "gen_done"
    /\ UNCHANGED <<domain, features, product_name, raised>>
    /\ UNCHANGED <<searchVars, runVars, mergeVars, stageVars>>

NextGen == Generate

SpecGen == InitGen /\ [][NextGen]_vars

-----------------------------------------------------------------------------
(* merge_and_deduplicate_competitors *)

\* str.lower() on the characters of the model.
LowerChar(c) ==
    CASE c = "A" -> "a"
      [] c = "B" -> "b"
      [] OTHER -> c

Lower(s) == [i \in 1..Len(s) |-> LowerChar(s[i])]

Range(f) == {f[i] : i \in DOMAIN f}

\* A candidate: {"name": name, "features": features}.  A missing key is the
\* default competitor.get gives it: "" and [].
Candidate(name, feats) == [name |-> name, features |-> feats]

\* Mutant: the dict is keyed by the name as written.
MergeKeyCaseSensitive(name) == name

\* Line 372: name_lower = name.lower()
MergeKey(name) == Lower(name)

\* Mutant: on a collision the stored features are kept as they are.
CollisionFeaturesKeepOld(existing, new) == existing

\* Lines 374-377: set(existing).update(new).  A features list made by
\* list(set(...)) has no order the code fixes and no duplicates: it is
\* modelled as the set of its elements.
CollisionFeatures(existing, new) == existing \cup new

\* Mutant: a new entry starts with no features.
NewEntryFeaturesNone(feats) == {}

\* Line 381: "features": list(set(features)) of a new entry.
NewEntryFeatures(feats) == Range(feats)

\* One iteration of the loop of lines 367-382 on the dict `merged`, kept as
\* the sequence of its items in insertion order.
MergeStep(m, c) ==
    LET name == Strip(c.name)
        k    == MergeKey(name)
        hit  == {i \in 1..Len(m) : m[i].key = k}
    IN  IF name = <<>> THEN m
        ELSE IF hit # {}
             THEN LET i == CHOOSE j \in hit : TRUE
                  IN  [m EXCEPT ![i].features =
                          CollisionFeatures(@, Range(c.features))]
             ELSE Append(m, [key |-> k, name |-> name,
                             features |-> NewEntryFeatures(c.features)])

RECURSIVE MergeLoop(_, _)
MergeLoop(m, cs) ==
    IF cs = <<>> THEN m ELSE MergeLoop(MergeStep(m, Head(cs)), Tail(cs))

\* merge_and_deduplicate_competitors: list(merged.values()).
Merge(cs) ==
    LET m == MergeLoop(<<>>, cs)
    IN  [i \in 1..Len(m) |-> Candidate(m[i].name, m[i].features)]

MaxCands == 3

CandNames == {<<>>, <<"A">>, <<"a">>, <<" ", "a", " ">>, <<"B", "a">>}
CandFeatures == {<<>>, <<"f">>, <<"F", "f">>, <<"g", "g">>}
Candidates == {Candidate(n, f) : n \in CandNames, f \in CandFeatures}

(* SpecMerge: one call of merge_and_deduplicate_competitors *)

InitMerge ==
    /\ pc = "merge"
    /\ all_competitors \in SeqsUpTo(Candidates, MaxCands)
    /\ merged = <<>> /\ remerged = <<>>
    /\ raised = ""
    /\ IdleGen /\ IdleSearch /\ IdleRun /\ IdleStages

MergeCall ==
    /\ pc = "merge"
    /\ merged' = Merge(all_competitors)
    /\ pc' = "merge_done"
    /\ UNCHANGED <<all_competitors, remerged, raised>>
    /\ UNCHANGED <<genVars, searchVars, runVars, stageVars>>

\* The lists a features value made by list(set(...)) can be: every order of
\* its elements, each once.
Listings(S) == {l \in [1..Cardinality(S) -> S] : Range(l) = S}

\* The returned list as a caller can pass it back in.
Refeeds(m) ==
    {x \in [1..Len(m) -> UNION {{Candidate(m[i].name, l) :
                                    l \in Listings(m[i].features)} :
                                i \in 1..Len(m)}] :
        \A i \in 1..Len(m) :
            x[i].name = m[i].name /\ Range(x[i].features) = m[i].features}

\* merge_and_deduplicate_competitors called on its own return value.
MergeAgain ==
    /\ pc = "merge_done"
    /\ \E x \in Refeeds(merged) : remerged' = Merge(x)
    /\ pc' = "remerge_done"
    /\ UNCHANGED <<all_competitors, merged, raised>>
    /\ UNCHANGED <<genVars, searchVars, runVars, stageVars>>

NextMerge == MergeCall \/ MergeAgain

SpecMerge == InitMerge /\ [][NextMerge]_vars

(* SpecMergeScored: the same call on candidates that carry score and reason *)

ScoredCandidate(name, feats, score, reason) ==
    [name |-> name, features |-> feats, score |-> score, reason |-> reason]

MaxScored == 2

\* "<deng>", "<lu>" are the two characters of the word for "log in".
ScoredNames == {<<"A", "c">>, <<"a", "c">>, <<"A">>, <<"<deng>", "<lu>">>}
ScoredFeatures == {<<>>, <<"f">>}
Scores == {3, 9}
Reasons == {"r1", "r2"}
ScoredCandidates ==
    {ScoredCandidate(n, f, sc, r) :
        n \in ScoredNames, f \in ScoredFeatures, sc \in Scores, r \in Reasons}

InitMergeScored ==
    /\ pc = "merge"
    /\ all_competitors \in SeqsUpTo(ScoredCandidates, MaxScored)
    /\ merged = <<>> /\ remerged = <<>>
    /\ raised = ""
    /\ IdleGen /\ IdleSearch /\ IdleRun /\ IdleStages

SpecMergeScored == InitMergeScored /\ [][NextMerge]_vars

-----------------------------------------------------------------------------
(* search_competitors, search_single_query, search_all_parallel *)

SearchWorkers == 5
FetchLimit == 5

Min(a, b) == IF a < b THEN a ELSE b

\* A webpage as search_competitors returns it.
Page(title, url, snippet) == [title |-> title, url |-> url, snippet |-> snippet]
P1 == Page("t1", "u1", "s1")
P2 == Page("t2", "u2", "s2")

\* What comprehensive_search can do on one call: raise, or return webpages.
ProviderOutcomes ==
    {[call |-> "threw", pages |-> <<>>]}
    \cup {[call |-> "ok", pages |-> ps] : ps \in {<<>>, <<P1>>, <<P2, P1>>}}

NoCall == [call |-> "nocall", pages |-> <<>>]

\* The dict search_single_query returns and the except branch of
\* search_all_parallel builds.
Wrapper(q, pages) ==
    [type |-> q.type, name |-> q.name, query |-> q.query,
     search_results |-> pages]

\* q["query"] (and q["type"], q["name"]) can be read: q is a dict with the key.
HasKey(q, k) == q.shape = "dict" /\ k \in q.keys

\* search_single_query reads query_info["query"] before the search and
\* query_info["type"], query_info["name"] after it.
WorkerCallsProvider(q) == HasKey(q, "query")
WorkerReturns(q) == HasKey(q, "query") /\ HasKey(q, "type") /\ HasKey(q, "name")

\* The except branch of lines 195-202 reads q['type'], q['name'], q["query"].
HandlerReturns(q) == HasKey(q, "type") /\ HasKey(q, "name") /\ HasKey(q, "query")

NQueries == Len(all_queries.items)

Running == {i \in 1..Len(fut) : fut[i] = "running"}
Pending == {i \in 1..Len(fut) : fut[i] = "pending"}

\* search_all_parallel, lines 180-188: the early return, else every query is
\* submitted to a pool of min(len(all_queries), 5) threads.  len() of a
\* number raises TypeError.
SearchSubmit ==
    /\ pc = "search"
    /\ IF all_queries.kind = "number"
       THEN /\ pc' = "raised" /\ raised' = "TypeError"
            /\ UNCHANGED searchVars
       ELSE IF QFalsy(all_queries)
            THEN /\ pc' = "fetch" /\ UNCHANGED <<raised, searchVars>>
            ELSE /\ pc' = "collect"
                 /\ fut' = [i \in 1..NQueries |-> "pending"]
                 /\ provider' = [i \in 1..NQueries |-> NoCall]
                 /\ results' = <<>>
                 /\ UNCHANGED raised
    /\ UNCHANGED <<genVars, runVars, mergeVars, stageVars>>

\* A pool thread takes the oldest queued work item.
WorkerStart(i) ==
    /\ pc \in {"collect", "unwinding"}
    /\ i \in Pending
    /\ \A j \in Pending : i <= j
    /\ Cardinality(Running) < Min(NQueries, SearchWorkers)
    /\ fut' = [fut EXCEPT ![i] = "running"]
    /\ UNCHANGED <<pc, raised, provider, results, genVars, runVars, mergeVars, stageVars>>

\* search_single_query runs to its end: the provider is called unless
\* query_info["query"] raised; search_competitors turns a provider exception
\* into []; the future ends with a result or with the exception.
WorkerFinish(i) ==
    /\ pc \in {"collect", "unwinding"}
    /\ i \in Running
    /\ LET q == all_queries.items[i]
       IN  \E out \in ProviderOutcomes :
             /\ provider' = [provider EXCEPT
                                ![i] = IF WorkerCallsProvider(q) THEN out
                                       ELSE NoCall]
             /\ fut' = [fut EXCEPT
                           ![i] = IF WorkerReturns(q) THEN "ok" ELSE "exc"]
    /\ UNCHANGED <<pc, raised, results, genVars, runVars, mergeVars, stageVars>>

\* One iteration of `for future in as_completed(...)`: a finished future's
\* result is appended; for a future that ended with an exception the except
\* branch appends an empty wrapper, unless reading q's keys raises again.
Collect(i) ==
    /\ pc = "collect"
    /\ fut[i] \in {"ok", "exc"}
    /\ LET q == all_queries.items[i]
       IN  IF fut[i] = "ok"
           THEN /\ results' = Append(results, Wrapper(q, provider[i].pages))
                /\ fut' = [fut EXCEPT ![i] = "taken"]
                /\ UNCHANGED <<pc, raised>>
           ELSE IF HandlerReturns(q)
                THEN /\ results' = Append(results, Wrapper(q, <<>>))
                     /\ fut' = [fut EXCEPT ![i] = "taken"]
                     /\ UNCHANGED <<pc, raised>>
                ELSE /\ pc' = "unwinding"
                     /\ raised' = IF q.shape = "dict" THEN "KeyError"
                                  ELSE "TypeError"
                     /\ UNCHANGED <<fut, results>>
    /\ UNCHANGED <<provider, genVars, runVars, mergeVars, stageVars>>

\* The with block ends normally: every future was taken; results is returned.
SearchReturn ==
    /\ pc = "collect"
    /\ \A i \in 1..Len(fut) : fut[i] = "taken"
    /\ pc' = "fetch"
    /\ UNCHANGED <<raised, searchVars, genVars, runVars, mergeVars, stageVars>>

\* The with block is left by an exception: ThreadPoolExecutor.__exit__ waits
\* for every submitted work item, then the exception leaves the call.
SearchRaise ==
    /\ pc = "unwinding"
    /\ Pending = {} /\ Running = {}
    /\ pc' = "raised"
    /\ UNCHANGED <<raised, searchVars, genVars, runVars, mergeVars, stageVars>>

-----------------------------------------------------------------------------
(* WebReader._fetch_content and WebReader.read_urls *)

ReadWorkers == 8

\* WebContent(url=..., title=..., content=..., success=..., error=...)
WebContent(url, title, content, success, error) ==
    [url |-> url, title |-> title, content |-> content, success |-> success,
     error |-> error]

Line(kind, text) == [kind |-> kind, text |-> text]

\* Lines 65-74: the text of the first line that is a "# " heading or that is
\* neither blank nor starts with http; "" when there is none.
TitleOf(content) ==
    LET I == {i \in 1..Len(content) : content[i].kind \in {"heading", "text"}}
    IN  IF I = {} THEN <<>>
        ELSE content[CHOOSE i \in I : \A j \in I : i <= j].text

\* What requests.get and raise_for_status can do on one url: answer with a
\* text, time out, fail with another RequestException, or raise something
\* else; msg is str(e).
FetchOutcomes ==
    {[call |-> "ok", text |-> c, msg |-> <<>>] :
        c \in {<<>>, <<Line("url", <<"h">>), Line("heading", <<"T">>)>>}}
    \cup {[call |-> "timeout", text |-> <<>>, msg |-> <<>>]}
    \cup {[call |-> "request_exception", text |-> <<>>, msg |-> <<>>],
          [call |-> "exception", text |-> <<>>, msg |-> <<"e">>]}

NotFetched == [call |-> "nocall", text |-> <<>>, msg |-> <<>>]

\* Mutant: the error of a failed fetch is str(e) alone.
FetchErrorBare(o) == Str(o.msg)

\* Lines 82-90: result.error for each except branch.
FetchError(o) ==
    CASE o.call = "timeout" -> Str(<<"<timeout>">>)
      [] o.call = "request_exception" -> Str(<<"<network_error>", ":", " ">> \o o.msg)
      [] OTHER -> Str(<<"<unknown_error>", ":", " ">> \o o.msg)

\* Lines 52-92: _fetch_content returns a WebContent whatever the request did.
FetchContent(url, o) ==
    IF o.call = "ok"
    THEN WebContent(url, TitleOf(o.text), o.text, TRUE, None)
    ELSE WebContent(url, <<>>, <<>>, FALSE, FetchError(o))

\* Lines 118-125: the early return, else one future per url is submitted to
\* a pool of max_workers threads.
ReadBegin ==
    /\ pc = "read_call"
    /\ IF url_list = <<>>
       THEN /\ pc' = "extract"
            /\ UNCHANGED <<rfut, fetched, web_contents>>
       ELSE /\ pc' = "read"
            /\ rfut' = [i \in 1..Len(url_list) |-> "pending"]
            /\ fetched' = [i \in 1..Len(url_list) |-> NotFetched]
            /\ web_contents' = <<>>
    /\ UNCHANGED <<url_list, raised, genVars, searchVars, runVars, mergeVars>>
    /\ UNCHANGED <<validated, enrichVars, extractVars, apiVars, poolVars>>

\* A pool thread takes the oldest queued work item.
FetchStart(i) ==
    /\ pc = "read"
    /\ rfut[i] = "pending"
    /\ \A j \in 1..Len(rfut) : rfut[j] = "pending" => i <= j
    /\ Cardinality({j \in 1..Len(rfut) : rfut[j] = "running"}) < ReadWorkers
    /\ rfut' = [rfut EXCEPT ![i] = "running"]
    /\ UNCHANGED <<pc, url_list, fetched, web_contents, raised>>
    /\ UNCHANGED <<genVars, searchVars, runVars, mergeVars>>
    /\ UNCHANGED <<validated, enrichVars, extractVars, apiVars, poolVars>>

\* Mutant: the worker appends its WebContent to the list of read_urls.
FetchFinishShared(i) ==
    /\ pc = "read"
    /\ rfut[i] = "running"
    /\ \E o \in FetchOutcomes :
          /\ fetched' = [fetched EXCEPT ![i] = o]
          /\ web_contents' = Append(web_contents, FetchContent(url_list[i], o))
    /\ rfut' = [rfut EXCEPT ![i] = "taken"]
    /\ UNCHANGED <<pc, url_list, raised>>
    /\ UNCHANGED <<genVars, searchVars, runVars, mergeVars>>
    /\ UNCHANGED <<validated, enrichVars, extractVars, apiVars, poolVars>>

\* _fetch_content runs to its end.
FetchFinish(i) ==
    /\ pc = "read"
    /\ rfut[i] = "running"
    /\ \E o \in FetchOutcomes : fetched' = [fetched EXCEPT ![i] = o]
    /\ rfut' = [rfut EXCEPT ![i] = "done"]
    /\ UNCHANGED <<pc, url_list, web_contents, raised>>
    /\ UNCHANGED <<genVars, searchVars, runVars, mergeVars>>
    /\ UNCHANGED <<validated, enrichVars, extractVars, apiVars, poolVars>>

\* Lines 127-134, one iteration of `for future in as_completed(...)`: the
\* WebContent the future returned is appended.  (_fetch_content raises
\* nothing, so the except branch of line 131 is not taken.)
ReadCollect(i) ==
    /\ pc = "read"
    /\ rfut[i] = "done"
    /\ web_contents' = Append(web_contents, FetchContent(url_list[i], fetched[i]))
    /\ rfut' = [rfut EXCEPT ![i] = "taken"]
    /\ UNCHANGED <<pc, url_list, fetched, raised>>
    /\ UNCHANGED <<genVars, searchVars, runVars, mergeVars>>
    /\ UNCHANGED <<validated, enrichVars, extractVars, apiVars, poolVars>>

\* Mutant: read_urls returns once the first future was taken.
ReadReturnEarly ==
    /\ pc = "read"
    /\ \E i \in 1..Len(rfut) : rfut[i] = "taken"
    /\ pc' = "extract"
    /\ web_ok' = {web_contents[k].url : k \in {k \in 1..Len(web_contents) :
                                                web_contents[k].success}}
    /\ UNCHANGED <<urls, extracted, result, raised, readVars>>
    /\ UNCHANGED <<genVars, searchVars, mergeVars>>
    /\ UNCHANGED <<validated, enrichVars, extractVars, apiVars, poolVars>>

\* Lines 136-139: the with block ends when every future was taken; results
\* is returned.  In run the next statement is the extraction.
ReadReturn ==
    /\ pc = "read"
    /\ \A i \in 1..Len(rfut) : rfut[i] = "taken"
    /\ pc' = "extract"
    /\ web_ok' = {web_contents[k].url : k \in {k \in 1..Len(web_contents) :
                                                web_contents[k].success}}
    /\ UNCHANGED <<urls, extracted, result, raised, readVars>>
    /\ UNCHANGED <<genVars, searchVars, mergeVars>>
    /\ UNCHANGED <<validated, enrichVars, extractVars, apiVars, poolVars>>

NextRead ==
    \/ ReadBegin
    \/ \E i \in 1..Len(rfut) : FetchStart(i)
    \/ \E i \in 1..Len(rfut) : FetchFinish(i)
    \/ \E i \in 1..Len(rfut) : ReadCollect(i)
    \/ ReadReturn

MaxUrls == 3

\* The lists of urls read_urls is called with, a url twice included.
UrlLists == UNION {[1..n -> {"u1", "u2"}] : n \in 0..MaxUrls}

InitRead ==
    /\ pc = "read_call"
    /\ url_list \in UrlLists
    /\ rfut = <<>> /\ fetched = <<>> /\ web_contents = <<>>
    /\ raised = ""
    /\ validated = <<>>
    /\ IdleGen /\ IdleSearch /\ IdleRun /\ IdleMerge /\ IdleEnrich
    /\ IdleExtract /\ IdleApi /\ IdlePool

SpecRead == InitRead /\ [][NextRead]_vars

ReadReturned == pc = "extract"

\* The number of entries of the list l that satisfy Test.
Count(l, Test(_)) == Cardinality({k \in 1..Len(l) : Test(l[k])})

\* C23: read_urls raises nothing and returns one item per input url, as a
\* multiset in any order; as many of the items of a url are failures as
\* fetches of that url failed or timed out, and a failure item has success
\* false, empty content and a non-empty error.
C23_ReadUrlsOneItemPerUrl ==
    ReadReturned =>
        /\ raised = ""
        /\ Len(web_contents) = Len(url_list)
        /\ \A u \in Range(url_list) \cup {web_contents[k].url : k \in 1..Len(web_contents)} :
              /\ Count(web_contents, LAMBDA w : w.url = u)
                    = Count(url_list, LAMBDA x : x = u)
              /\ Count(web_contents, LAMBDA w : w.url = u /\ ~w.success)
                    = Cardinality({i \in 1..Len(url_list) :
                                     url_list[i] = u /\ fetched[i].call # "ok"})
        /\ \A k \in 1..Len(web_contents) :
              ~web_contents[k].success
                 => /\ web_contents[k].content = <<>>
                    /\ ~web_contents[k].error.isNone
                    /\ web_contents[k].error.s # <<>>

\* A url given twice was read with one fetch timing out, another failing
\* with an empty exception text and a third succeeding, and the items came
\* back in another order than the urls.
C23_Witness ==
    /\ ReadReturned
    /\ Len(url_list) = 3
    /\ url_list[1] = url_list[2]
    /\ \E i, j, k \in 1..3 :
          /\ fetched[i].call = "timeout"
          /\ fetched[j].call = "request_exception"
          /\ fetched[k].call = "ok"
    /\ web_contents[1].url # url_list[1]

-----------------------------------------------------------------------------
(* run *)

RECURSIVE Flatten(_)
Flatten(rs) ==
    IF rs = <<>> THEN <<>> ELSE Head(rs).search_results \o Flatten(Tail(rs))

\* Lines 424-427.
AllSearchResults == Flatten(results)
QueryStrings == [i \in 1..Len(results) |-> results[i].query]

\* A feature the LLM wrote as an object or a list: set() cannot hash it.
Unhashable == "<dict>"

\* set(...) and set.update(...) of lines 374-381 raise TypeError on an
\* unhashable feature; they are reached by the candidates with a name.
MergeRaises(cs) ==
    \E i \in 1..Len(cs) :
        /\ Strip(cs[i].name) # <<>>
        /\ Unhashable \in Range(cs[i].features)

\* Lists extract_competitor_info can return on an LLM answer; [] is also
\* what an LLM exception or an unparsable answer gives (lines 358-360).
ExtractOutcomes ==
    {<<>>,
     <<Candidate(<<"A">>, <<"f">>)>>,
     <<Candidate(<<"A">>, <<"f">>), Candidate(<<"a">>, <<"g", "f">>)>>,
     <<Candidate(<<"B", "a">>, <<>>), Candidate(<<" ">>, <<"f">>)>>,
     <<Candidate(<<"A">>, <<Unhashable>>)>>}

\* The dict run returns.
Result(qs, cs) ==
    [returned |-> TRUE, domain |-> domain, features |-> features,
     product_name |-> product_name, queries |-> qs, competitors |-> cs,
     total_count |-> Len(cs)]

RunDomains == {None, Str(<<"D">>)}
RunFeatures == {None, Str(<<",">>), Str(<<"f", ",", "g">>)}
RunProducts == {<<"X">>}
RunElems == {EGood1, EGood2, EQueryOnly, EStr}

Init ==
    /\ pc = "run"
    /\ domain \in RunDomains
    /\ features \in RunFeatures
    /\ product_name \in RunProducts
    /\ llmKind = "nocall" /\ llmCalls = 0 /\ all_queries = QList(<<>>)
    /\ raised = ""
    /\ IdleSearch /\ IdleRun /\ IdleMerge /\ IdleStages

\* Lines 405-416: the queries are generated; with none, run returns at once.
RunGenerate ==
    /\ pc = "run"
    /\ endpoint # "stream"
    /\ \E llm \in LlmOutcomes(RunElems) :
         LET r == GenerateSearchQueries(domain, features, product_name, llm)
         IN  /\ all_queries' = r.ret
             /\ llmCalls' = llmCalls + r.calls
             /\ llmKind' = IF r.calls = 0 THEN "nocall" ELSE llm.kind
             /\ IF QFalsy(r.ret)
                THEN /\ pc' = "done"
                     /\ result' = Result(<<>>, <<>>)
                ELSE /\ pc' = "search"
                     /\ UNCHANGED result
    /\ UNCHANGED <<domain, features, product_name, raised>>
    /\ UNCHANGED <<searchVars, urls, web_ok, extracted, mergeVars, stageVars>>

\* The orders list(set(U)) can come in.
Arrangements(U) ==
    {l \in [1..Cardinality(U) -> U] :
        \A i, j \in 1..Cardinality(U) : i # j => l[i] # l[j]}

\* Line 432: list(set(result['url'] for result in all_search_results))[:5],
\* the first 5 of the distinct urls in the order the set iterates in.
FetchPlans(rs) ==
    LET all == {rs[i].url : i \in 1..Len(rs)}
    IN  UNION {Arrangements(U) :
                 U \in {V \in SUBSET all :
                           Cardinality(V) = Min(Cardinality(all), FetchLimit)}}

\* Lines 430-434: without search results web_contents is []; else read_urls
\* is called on the planned urls.
Fetch ==
    /\ pc = "fetch"
    /\ endpoint # "stream"
    /\ IF AllSearchResults = <<>>
       THEN /\ pc' = "extract"
            /\ UNCHANGED <<urls, url_list>>
       ELSE /\ pc' = "read_call"
            /\ \E l \in FetchPlans(AllSearchResults) :
                  url_list' = l /\ urls' = Range(l)
    /\ UNCHANGED <<web_ok, rfut, fetched, web_contents>>
    /\ UNCHANGED <<raised, extracted, result, genVars, searchVars, mergeVars>>
    /\ UNCHANGED <<validated, enrichVars, extractVars, apiVars, poolVars>>

\* extract_competitor_info: no LLM call without search results; else one
\* call, whose answer decides the list.
Extract ==
    /\ pc = "extract"
    /\ IF AllSearchResults = <<>>
       THEN extracted' = <<>> /\ UNCHANGED llmCalls
       ELSE extracted' \in ExtractOutcomes /\ llmCalls' = llmCalls + 1
    /\ pc' = "merge"
    /\ UNCHANGED <<domain, features, product_name, llmKind, all_queries>>
    /\ UNCHANGED <<raised, urls, web_ok, result, searchVars, mergeVars, stageVars>>

\* Lines 440-451: merge, then the result object.
MergeReturn ==
    /\ pc = "merge"
    /\ all_competitors' = extracted
    /\ IF MergeRaises(extracted)
       THEN /\ pc' = "raised" /\ raised' = "TypeError"
            /\ UNCHANGED <<merged, result>>
       ELSE /\ merged' = Merge(extracted)
            /\ result' = Result(QueryStrings, Merge(extracted))
            /\ pc' = "done"
            /\ UNCHANGED raised
    /\ UNCHANGED <<remerged, urls, web_ok, extracted, genVars, searchVars,
                 stageVars>>

Next ==
    \/ RunGenerate
    \/ SearchSubmit
    \/ \E i \in 1..Len(fut) : WorkerStart(i)
    \/ \E i \in 1..Len(fut) : WorkerFinish(i)
    \/ \E i \in 1..Len(fut) : Collect(i)
    \/ SearchReturn
    \/ SearchRaise
    \/ Fetch
    \/ ReadBegin
    \/ \E i \in 1..Len(rfut) : FetchStart(i)
    \/ \E i \in 1..Len(rfut) : FetchFinish(i)
    \/ \E i \in 1..Len(rfut) : ReadCollect(i)
    \/ ReadReturn
    \/ Extract
    \/ MergeReturn

Spec == Init /\ [][Next]_vars

-----------------------------------------------------------------------------
(* run, lines 423-434: the urls handed to read_urls *)

R1 == Page("t1", "u1", "s1")
R2 == Page("top", "u2", "s2")
R3 == Page("t3", "u3", "<pandian>")
R4 == Page("t4", "u4", "s4")
R5 == Page("t5", "u5", "s5")
R6 == Page("<shida>", "u6", "s6")
R1Again == Page("<paiming>", "u1", "s7")

\* The pages the search of one query returned.
RankInputs ==
    {<<R1, R2, R3, R4, R5, R6>>, <<R1, R2>>, <<R1, R4>>, <<R6, R3, R1>>,
     <<R4, R1Again, R1, R3>>}

\* run after search_all_parallel returned the wrapper of one query.
InitFetchPlan ==
    /\ pc = "fetch"
    /\ domain = Str(<<"D">>) /\ features = None /\ product_name = <<"X">>
    /\ llmKind = "text" /\ llmCalls = 1 /\ all_queries = QList(<<EGood1>>)
    /\ \E ps \in RankInputs :
          /\ provider = <<[call |-> "ok", pages |-> ps]>>
          /\ results = <<Wrapper(EGood1, ps)>>
    /\ fut = <<"taken">>
    /\ raised = ""
    /\ IdleRun /\ IdleMerge /\ IdleStages

NextFetchPlan == Fetch

SpecFetchPlan == InitFetchPlan /\ [][NextFetchPlan]_vars

\* The heuristic score of a search result: +10 for a ranking keyword, +5 for
\* a roundup keyword in title or snippet.
HeuristicScore(p) ==
    (IF {p.title, p.snippet} \cap {"<paiming>", "top", "<shida>"} # {} THEN 10 ELSE 0)
    + (IF {p.title, p.snippet} \cap {"<youneixie>", "<pandian>"} # {} THEN 5 ELSE 0)

\* The index in rs of the first result with url u.
FirstWith(rs, u) ==
    CHOOSE i \in 1..Len(rs) :
        rs[i].url = u /\ \A j \in 1..(i - 1) : rs[j].url # u

\* l lists every distinct url of rs once, by falling score of its first
\* result, equal scores in the order of rs.
RankedOrder(rs, l) ==
    /\ Range(l) = {rs[i].url : i \in 1..Len(rs)}
    /\ Len(l) = Cardinality(Range(l))
    /\ \A i, j \in 1..Len(l) :
          i < j =>
            LET a == FirstWith(rs, l[i])
                b == FirstWith(rs, l[j])
            IN  \/ HeuristicScore(rs[a]) > HeuristicScore(rs[b])
                \/ HeuristicScore(rs[a]) = HeuristicScore(rs[b]) /\ a < b

FetchPlanned == pc = "read_call"

\* C27: every distinct url among the search results is handed to the
\* content fetcher, in the order of the heuristic score, equal scores in
\* their original order.
C27_EveryUrlFetchedInRankOrder ==
    FetchPlanned => RankedOrder(AllSearchResults, url_list)

-----------------------------------------------------------------------------
(* api/main.py: analyze and analyze_stream.event_generator *)

\* Mutant: only a missing domain and missing features are rejected.
RejectedNone(d, f) == d.isNone /\ f.isNone

\* Lines 104 and 161: `not domain and not features`.
Rejected(d, f) == Falsy(d) /\ Falsy(f)

ProgressEvent(n) == [type |-> "progress", progress |-> n]
ErrorEvent == [type |-> "error", progress |-> 0]

\* Mutant: an exception ends the stream without an event.
OnExceptionSilent(evs) == evs

\* Lines 276-278: an exception anywhere in the generator yields one error
\* event, after which the generator ends.
OnException(evs) == Append(evs, ErrorEvent)

\* get_llm_client (llm/client.py 24-34) returns a client or re-raises what
\* the OpenAI constructor raised.
ClientOutcomes == {"client", "raises"}

\* Line 190, [q["query"] for q in queries_data], raises on a value that does
\* not iterate and on an element without the key "query".
QueryStringsRaise(q) ==
    \/ q.kind \in {"null", "number"}
    \/ \E i \in 1..Len(q.items) : ~HasKey(q.items[i], "query")

ApiDomains == {None, Str(<<>>), Str(<<"D">>)}
ApiFeatures == {None, Str(<<>>)}

InitApi ==
    /\ pc = "request"
    /\ endpoint \in {"analyze", "stream"}
    /\ events = <<>> /\ http = 0
    /\ domain \in ApiDomains
    /\ features \in ApiFeatures
    /\ product_name \in RunProducts
    /\ llmKind = "nocall" /\ llmCalls = 0 /\ all_queries = QList(<<>>)
    /\ raised = ""
    /\ validated = <<>>
    /\ IdleSearch /\ IdleRun /\ IdleMerge /\ IdleEnrich
    /\ IdleExtract /\ IdleRead /\ IdlePool

\* analyze, lines 100-118: empty input is answered with 400; else the client
\* is made and run is called.
AnalyzeBegin ==
    /\ pc = "request" /\ endpoint = "analyze"
    /\ IF Rejected(domain, features)
       THEN pc' = "responded" /\ http' = 400
       ELSE \E c \in ClientOutcomes :
              IF c = "raises"
              THEN pc' = "responded" /\ http' = 500
              ELSE pc' = "run" /\ UNCHANGED http
    /\ UNCHANGED <<endpoint, events, raised, genVars, searchVars, runVars, mergeVars>>
    /\ UNCHANGED <<validated, enrichVars, extractVars, readVars, poolVars>>

\* analyze, lines 120-143: the result of run is answered with 200, an
\* exception of run with 500.
AnalyzeEnd ==
    /\ pc \in {"done", "raised"} /\ endpoint = "analyze"
    /\ http' = IF pc = "done" THEN 200 ELSE 500
    /\ pc' = "responded"
    /\ UNCHANGED <<endpoint, events, raised, genVars, searchVars, runVars, mergeVars>>
    /\ UNCHANGED <<validated, enrichVars, extractVars, readVars, poolVars>>

\* event_generator, lines 159-179: empty input yields one error event and
\* the generator returns; else progress 5 and 10, the client, progress 25.
StreamBegin ==
    /\ pc = "request" /\ endpoint = "stream"
    /\ IF Rejected(domain, features)
       THEN pc' = "closed" /\ events' = <<ErrorEvent>>
       ELSE \E c \in ClientOutcomes :
              IF c = "raises"
              THEN /\ pc' = "closed"
                   /\ events' = OnException(<<ProgressEvent(5), ProgressEvent(10)>>)
              ELSE /\ pc' = "stream_generate"
                   /\ events' = <<ProgressEvent(5), ProgressEvent(10),
                                  ProgressEvent(25)>>
    /\ UNCHANGED <<endpoint, http, raised, genVars, searchVars, runVars, mergeVars>>
    /\ UNCHANGED <<validated, enrichVars, extractVars, readVars, poolVars>>

\* Lines 186-192: the queries are generated, their strings are taken, then
\* progress 35.
StreamGenerate ==
    /\ pc = "stream_generate"
    /\ \E llm \in LlmOutcomes(RunElems) :
         \E r \in {GenerateSearchQueries(domain, features, product_name, llm)} :
             /\ all_queries' = r.ret
             /\ llmCalls' = llmCalls + r.calls
             /\ llmKind' = IF r.calls = 0 THEN "nocall" ELSE llm.kind
             /\ IF QueryStringsRaise(r.ret)
                THEN pc' = "closed" /\ events' = OnException(events)
                ELSE /\ pc' = "search"
                     /\ events' = Append(events, ProgressEvent(35))
    /\ UNCHANGED <<domain, features, product_name, raised, endpoint, http>>
    /\ UNCHANGED <<searchVars, runVars, mergeVars>>
    /\ UNCHANGED <<validated, enrichVars, extractVars, readVars, poolVars>>

\* Lines 200-221 after search_all_parallel returned raw_results, a list of
\* per-query wrappers.  With a wrapper in it r["url"] of line 200 raises
\* KeyError.  With none, search_results is [], progress 45 and 55 are
\* yielded with web_contents = [], and line 220 calls
\* extract_competitor_info, a method of four parameters, with six
\* arguments: TypeError.
StreamAfterSearch ==
    /\ pc = "fetch" /\ endpoint = "stream"
    /\ events' = IF results # <<>> THEN OnException(events)
                 ELSE OnException(events \o <<ProgressEvent(45), ProgressEvent(55)>>)
    /\ pc' = "closed"
    /\ UNCHANGED <<endpoint, http, raised, genVars, searchVars, runVars, mergeVars>>
    /\ UNCHANGED <<validated, enrichVars, extractVars, readVars, poolVars>>

\* search_all_parallel raised: lines 276-278.
StreamRaised ==
    /\ pc = "raised" /\ endpoint = "stream"
    /\ events' = OnException(events)
    /\ pc' = "closed"
    /\ UNCHANGED <<endpoint, http, raised, genVars, searchVars, runVars, mergeVars>>
    /\ UNCHANGED <<validated, enrichVars, extractVars, readVars, poolVars>>

NextApi ==
    \/ AnalyzeBegin
    \/ AnalyzeEnd
    \/ StreamBegin
    \/ StreamGenerate
    \/ StreamAfterSearch
    \/ StreamRaised
    \/ Next

SpecApi == InitApi /\ [][NextApi]_vars

\* The request has neither a domain nor features.
RequestEmpty ==
    /\ (domain.isNone \/ domain.s = <<>>)
    /\ (features.isNone \/ features.s = <<>>)

\* C22: a request with neither domain nor features makes no LLM call, no
\* search call and no fetch; the synchronous endpoint answers it with 400
\* and the stream with exactly one error event, after which it ends.
C22_EmptyRequestRejected ==
    RequestEmpty =>
        /\ llmCalls = 0 /\ llmKind = "nocall"
        /\ fut = <<>> /\ provider = <<>>
        /\ url_list = <<>> /\ rfut = <<>>
        /\ pc \in {"request", "responded", "closed"}
        /\ pc = "request" => http = 0 /\ events = <<>>
        /\ pc = "responded" => endpoint = "analyze" /\ http = 400 /\ events = <<>>
        /\ pc = "closed" => endpoint = "stream" /\ events = <<ErrorEvent>>

\* The stream has ended on a request whose domain is the empty string and
\* whose features are missing.
C22_Witness ==
    /\ pc = "closed"
    /\ domain = Str(<<>>) /\ features = None
    /\ events = <<ErrorEvent>>

Last(evs) == evs[Len(evs)]

\* C28: the stream of an accepted request whose queries were generated ends
\* with a result event whose queries, competitors and total_count are those
\* run returns on the same answers of the LLM and the search provider.
C28_StreamResultEqualsRun ==
    (/\ endpoint = "stream" /\ pc = "closed" /\ ~RequestEmpty
     /\ \E i \in 1..Len(events) : events[i] = ProgressEvent(35))
        => /\ Last(events).type = "result"
           /\ Last(events).data = Result(QueryStrings, Merge(extracted))

Terminal(e) == e.type \in {"result", "error"}

\* C29: the events of a stream are progress events of strictly increasing
\* progress followed, when the stream has ended, by exactly one terminal
\* event (result or error), which is the last event; a result event comes
\* only after progress 100.
C29_StreamEventOrder ==
    endpoint = "stream" =>
        /\ \A i, j \in 1..Len(events) :
              (i < j /\ events[i].type = "progress" /\ events[j].type = "progress")
                 => events[i].progress < events[j].progress
        /\ \A i \in 1..Len(events) : Terminal(events[i]) => i = Len(events)
        /\ (pc = "closed") <=> (events # <<>> /\ Terminal(Last(events)))
        /\ \A i \in 1..Len(events) :
              events[i].type = "result"
                 => \E j \in 1..(i - 1) : events[j] = ProgressEvent(100)

\* The stream ended with an error after progress 55.
C29_Witness ==
    /\ pc = "closed"
    /\ Len(events) = 7
    /\ events[6] = ProgressEvent(55)
    /\ events[7] = ErrorEvent

-----------------------------------------------------------------------------
(* Claims about generate_search_queries, under SpecGen *)

NonEmptyInput == ~(Falsy(domain) /\ Falsy(features))

\* C1: called with domain and features both empty (None or ""), the call
\* returns the empty list and makes no LLM call, whatever the product name.
C1_EmptyInputsReturnEmptyWithoutLlm ==
    (pc = "gen_done" /\ Falsy(domain) /\ Falsy(features))
        => (all_queries = QList(<<>>) /\ llmCalls = 0 /\ llmKind = "nocall")

C1_Witness ==
    /\ pc = "gen_done"
    /\ domain = Str(<<>>) /\ features = None /\ product_name = <<"P", "Q">>
    /\ all_queries = QList(<<>>) /\ llmCalls = 0

\* C2: with domain or features non-empty, the call returns a non-empty list
\* of queries, whatever the LLM does and whatever features holds.
C2_NonEmptyInputGivesQueries ==
    (pc = "gen_done" /\ NonEmptyInput)
        => (all_queries.kind = "list" /\ all_queries.items # <<>>)

\* C3: when the LLM call raises, a non-empty domain with features None gives
\* a non-empty fallback list with a query that contains the product name.
C3_FallbackNamesProduct ==
    (pc = "gen_done" /\ llmKind = "raise" /\ ~Falsy(domain) /\ features.isNone)
        => /\ all_queries.kind = "list"
           /\ all_queries.items # <<>>
           /\ \E i \in 1..Len(all_queries.items) :
                 /\ HasKey(all_queries.items[i], "query")
                 /\ Contains(product_name, all_queries.items[i].query)

C3_Witness ==
    /\ pc = "gen_done" /\ llmKind = "raise" /\ llmCalls = 1
    /\ domain = Str(<<"D">>) /\ features = None /\ product_name = <<"X">>
    /\ all_queries =
          QList(<<QueryDict("domain", <<"D">>,
                            <<"D", " ", "X", " ", "<jingpin>">>)>>)

\* C4: every element of the returned list is a record with a string query
\* field, whatever shapes the LLM put in its queries array.
C4_ReturnsQueryRecords ==
    pc = "gen_done"
        => /\ all_queries.kind = "list"
           /\ \A i \in 1..Len(all_queries.items) :
                 HasKey(all_queries.items[i], "query")

-----------------------------------------------------------------------------
(* Claims about search_all_parallel and run, under Spec *)

SearchReturned == pc \in {"fetch", "extract", "merge", "done"} /\ fut # <<>>

\* What query i contributes when its search fails or succeeds.
Contribution(i) ==
    IF fut[i] = "taken" /\ provider[i].call = "ok" THEN provider[i].pages
    ELSE <<>>

\* C5: a failed search for one query (a provider exception, or an exception
\* in that query's worker) contributes zero results, does not raise out of
\* search_all_parallel, and leaves every other query's results in the output.
C5_QueryFailureIsolated ==
    /\ pc # "unwinding"
    /\ SearchReturned =>
          /\ Len(results) = NQueries
          /\ \A i \in 1..NQueries :
                \E k \in 1..Len(results) :
                    results[k] = Wrapper(all_queries.items[i], Contribution(i))

EveryCallThrew ==
    /\ \A i \in 1..Len(provider) : provider[i].call # "ok"
    /\ \E i \in 1..Len(provider) : provider[i].call = "threw"

\* C6: if the provider throws on every call, search_all_parallel returns the
\* empty list, for any non-empty list of queries.
C6_AllThrowGivesEmptyList ==
    (SearchReturned /\ EveryCallThrew) => results = <<>>

\* C7: if the provider throws on every call, run still returns a result
\* object with competitors empty and total_count 0, and does not raise.
C7_RunSurvivesProviderOutage ==
    (EveryCallThrew /\ pc \in {"unwinding", "raised", "done"})
        => /\ pc = "done"
           /\ result.returned
           /\ result.competitors = <<>>
           /\ result.total_count = 0

\* C8: whatever the collaborators do, run does not raise, and the result
\* object it returns has total_count equal to the length of competitors.
C8_RunAlwaysReturnsResult ==
    /\ pc \notin {"unwinding", "raised"}
    /\ raised = ""
    /\ pc = "done" =>
          /\ result.returned
          /\ result.total_count = Len(result.competitors)

-----------------------------------------------------------------------------
(* Claims about merge_and_deduplicate_competitors, under SpecMerge *)

\* C9: no two entries of the output have names that are equal when
\* lowercased; "A" and "a" give one entry.
C9_NamesUniqueIgnoringCase ==
    pc = "merge_done"
        => \A i, j \in 1..Len(merged) :
              Lower(merged[i].name) = Lower(merged[j].name) => i = j

C9_Witness ==
    /\ pc = "merge_done"
    /\ all_competitors =
          <<Candidate(<<"A">>, <<"f">>), Candidate(<<"a">>, <<"F", "f">>)>>
    /\ Len(merged) = 1
    /\ merged[1].name = <<"A">>

\* The features of the input candidates whose trimmed, lowercased name is k.
InputFeatures(k) ==
    UNION {Range(all_competitors[j].features) :
              j \in {j \in 1..Len(all_competitors) :
                        Lower(Strip(all_competitors[j].name)) = k}}

\* C10: the feature set of every output entry is the union, by exact string,
\* of the feature lists of the input candidates with the entry's key.
C10_FeaturesAreUnionOfInputs ==
    pc = "merge_done"
        => \A i \in 1..Len(merged) :
              merged[i].features = InputFeatures(Lower(merged[i].name))

C10_Witness ==
    /\ pc = "merge_done"
    /\ all_competitors =
          <<Candidate(<<"A">>, <<"f">>),
            Candidate(<<"B", "a">>, <<"g", "g">>),
            Candidate(<<" ", "a", " ">>, <<"F", "f">>)>>
    /\ merged =
          <<Candidate(<<"A">>, {"f", "F"}), Candidate(<<"B", "a">>, {"g"})>>

\* The input candidates whose trimmed, lowercased name is k, in input order.
SameKey(k) ==
    {j \in 1..Len(all_competitors) :
        Lower(Strip(all_competitors[j].name)) = k}

MaxScoreOf(k) ==
    CHOOSE s \in {all_competitors[j].score : j \in SameKey(k)} :
        \A j \in SameKey(k) : all_competitors[j].score <= s

FirstWithMax(k) ==
    CHOOSE j \in SameKey(k) :
        /\ all_competitors[j].score = MaxScoreOf(k)
        /\ \A h \in SameKey(k) :
              all_competitors[h].score = MaxScoreOf(k) => j <= h

\* C11: under SpecMergeScored, every output entry carries the greatest score
\* of the input candidates with its key, and the reason of the first of them
\* that has that score.
C11_ScoreIsMaxReasonOfFirstMax ==
    pc = "merge_done"
        => \A i \in 1..Len(merged) :
              LET k == Lower(merged[i].name)
              IN  /\ {"score", "reason"} \subseteq DOMAIN merged[i]
                  /\ merged[i].score = MaxScoreOf(k)
                  /\ merged[i].reason = all_competitors[FirstWithMax(k)].reason

\* The generic terms the specification's blocklist names, two characters
\* each: "log in", "home page", "product", "platform".
NameBlocklist ==
    {<<"<deng>", "<lu>">>, <<"<shou>", "<ye>">>,
     <<"<chan>", "<pin>">>, <<"<ping>", "<tai>">>}

\* C12: under SpecMergeScored, no output entry has a trimmed, lowercased
\* name that is empty, shorter than 2 characters or on the blocklist.
C12_NoShortOrBlocklistedName ==
    pc = "merge_done"
        => \A i \in 1..Len(merged) :
              LET n == Lower(Strip(merged[i].name))
              IN  n # <<>> /\ Len(n) >= 2 /\ n \notin NameBlocklist

\* C13: merging the merged list again gives the same set of names and, for
\* each name, a feature set that contains the one of the first merge.
C13_MergeIdempotent ==
    pc = "remerge_done"
        => /\ {remerged[i].name : i \in 1..Len(remerged)}
                = {merged[i].name : i \in 1..Len(merged)}
           /\ \A i \in 1..Len(merged) :
                 \E j \in 1..Len(remerged) :
                    /\ remerged[j].name = merged[i].name
                    /\ merged[i].features \subseteq remerged[j].features

C13_Witness ==
    /\ pc = "remerge_done"
    /\ all_competitors =
          <<Candidate(<<"A">>, <<"f">>),
            Candidate(<<" ", "a", " ">>, <<"F", "f">>),
            Candidate(<<"B", "a">>, <<"g", "g">>)>>
    /\ Len(merged) = 2
    /\ remerged = merged

-----------------------------------------------------------------------------
(* validate_competitors.  api/main.py calls it on the merged list with      *)
(* min_score=6 (lines 226-230); backend/agent/competitor_agent.py defines   *)
(* no such method, so its body follows section 4.5 of the specification:    *)
(* keep score >= min_score; if nothing is kept, the top 5 by score; the     *)
(* output sorted by score, descending.                                      *)

\* min_score=6 at the call of api/main.py line 228.
MinScore == 6

\* Size of the fallback selection.
TopFallback == 5

\* The competitors of cs with score >= min_score, in their order in cs.
RECURSIVE KeepAtLeast(_, _)
KeepAtLeast(cs, min_score) ==
    IF cs = <<>> THEN <<>>
    ELSE IF Head(cs).score >= min_score
         THEN <<Head(cs)>> \o KeepAtLeast(Tail(cs), min_score)
         ELSE KeepAtLeast(Tail(cs), min_score)

\* c put into the list sorted, which is by score descending, behind the
\* entries of equal score.
RECURSIVE InsertByScore(_, _)
InsertByScore(sorted, c) ==
    IF sorted = <<>> THEN <<c>>
    ELSE IF Head(sorted).score >= c.score
         THEN <<Head(sorted)>> \o InsertByScore(Tail(sorted), c)
         ELSE <<c>> \o sorted

RECURSIVE SortByScoreDesc(_)
SortByScoreDesc(cs) ==
    IF cs = <<>> THEN <<>>
    ELSE InsertByScore(SortByScoreDesc(SubSeq(cs, 1, Len(cs) - 1)),
                       cs[Len(cs)])

\* Mutant: an empty filter result is returned as it is.
ValidateFallbackNone(cs) == <<>>

\* The fallback: the top 5 of the input by score.
ValidateFallback(cs) ==
    SubSeq(SortByScoreDesc(cs), 1, Min(TopFallback, Len(cs)))

ValidateCompetitors(cs, min_score) ==
    LET kept == KeepAtLeast(cs, min_score)
    IN  IF kept = <<>> THEN ValidateFallback(cs) ELSE SortByScoreDesc(kept)

MaxValidate == 6

ValidateScores == {2, 3, 4, 6}

\* The i-th competitor of a merged list: merged names are pairwise distinct.
ValidateName(i) == <<"c", i>>

ValidateInputs ==
    UNION {{[i \in 1..n |-> ScoredCandidate(ValidateName(i), {}, sc[i], "r")] :
               sc \in [1..n -> ValidateScores]} : n \in 0..MaxValidate}

(* SpecValidate: one call of validate_competitors(merged, ..., min_score=6) *)

InitValidate ==
    /\ pc = "validate"
    /\ merged \in ValidateInputs
    /\ validated = <<>>
    /\ all_competitors = <<>> /\ remerged = <<>>
    /\ raised = ""
    /\ IdleGen /\ IdleSearch /\ IdleRun /\ IdleEnrich /\ IdleOther

ValidateCall ==
    /\ pc = "validate"
    /\ validated' = ValidateCompetitors(merged, MinScore)
    /\ pc' = "validate_done"
    /\ UNCHANGED <<raised, genVars, searchVars, runVars, mergeVars, enrichVars,
                   otherVars>>

NextValidate == ValidateCall

SpecValidate == InitValidate /\ [][NextValidate]_vars

(* Claims about validate_competitors, under SpecValidate *)

SortedDescending(cs) ==
    \A i, j \in 1..Len(cs) : i < j => cs[i].score >= cs[j].score

\* out holds n entries of cs, each at most once, and no entry of cs left out
\* has a greater score than one taken.
IsTopByScore(out, cs, n) ==
    /\ Len(out) = n
    /\ \A i \in 1..Len(out) : \E j \in 1..Len(cs) : out[i] = cs[j]
    /\ \A i, j \in 1..Len(out) : out[i].name = out[j].name => i = j
    /\ \A j \in 1..Len(cs) :
          (\A i \in 1..Len(out) : out[i] # cs[j])
              => \A i \in 1..Len(out) : out[i].score >= cs[j].score

\* C14: for a non-empty input the output is non-empty and sorted by score,
\* descending; when no score reaches min_score it is the top 5 by score, or
\* all of the input when that has fewer than 5.
C14_ValidateNeverEmpty ==
    (pc = "validate_done" /\ merged # <<>>)
        => /\ validated # <<>>
           /\ SortedDescending(validated)
           /\ (\A j \in 1..Len(merged) : merged[j].score < MinScore)
                 => IsTopByScore(validated, merged,
                                 Min(TopFallback, Len(merged)))

\* Six competitors, all under the threshold: the fallback leaves one out.
C14_Witness ==
    /\ pc = "validate_done"
    /\ Len(merged) = 6
    /\ [i \in 1..6 |-> merged[i].score] = <<2, 3, 4, 2, 4, 3>>
    /\ [i \in 1..Len(validated) |-> validated[i].score] = <<4, 4, 3, 3, 2>>
    /\ [i \in 1..Len(validated) |-> validated[i].name[2]] = <<3, 5, 2, 6, 1>>

-----------------------------------------------------------------------------
(* FeatureExtractor.enrich_competitors (backend/agent/feature_extractor.py) *)
(* A feature is one token; a search result is its url and snippet; the      *)
(* content read from a url and the joined snippets are one token each.      *)

\* max_workers=4: the default of enrich_competitors and the value api/main.py
\* passes.
EnrichWorkers == 4

\* max_pages=2 at the submit of extract_features_for_competitor.
MaxPages == 2

\* len(f.strip()) >= 4
MinFeatureLen == 4

\* A snippet the provider sent as JSON null.
NullSnippet == "<null>"

Hit(url, snippet) == [url |-> url, snippet |-> snippet]

\* What comprehensive_search does for one competitor: it throws, or it
\* returns webpages.
EnrichProviderOutcomes ==
    {[call |-> "threw", pages |-> <<>>],
     [call |-> "ok", pages |-> <<>>],
     [call |-> "ok", pages |-> <<Hit("u1", "s1"), Hit("u2", "s2"),
                                  Hit("u3", "s3")>>],
     [call |-> "ok", pages |-> <<Hit("u1", NullSnippet)>>]}

NotCalled == [call |-> "none", pages |-> <<>>]

\* search_single_competitor: the results, [] when the search threw.
SearchSingleCompetitor(o) == IF o.call = "ok" THEN o.pages ELSE <<>>

\* Mutant: the results stored last replace those of every name.
MapPutOverwrite(m, name, v) == [n \in DOMAIN m \cup {name} |-> v]

\* results[name] = ... on the dict of search_competitors_parallel.
MapPut(m, name, v) ==
    [n \in DOMAIN m \cup {name} |-> IF n = name THEN v ELSE m[n]]

\* search_results_map.get(name, [])
MapGet(m, name) == IF name \in DOMAIN m THEN m[name] ELSE <<>>

\* A feature string of an LLM answer: s is the string stripped, len the
\* length of s, padded whether the answer had whitespace around it.
RawFeature(s, len, padded) == [s |-> s, len |-> len, padded |-> padded]

\* The text handed to the LLM: the content of a page, or the joined
\* snippets.
ContentOf(url) == IF url = "u1" THEN "c1" ELSE "c2"
Snippets == "snippets"
Contents == {"c1", "c2", Snippets}

\* The features array the LLM writes for a text, when it answers.
LlmFeatures(content) ==
    CASE content = "c1" ->
            <<RawFeature("n1", 6, FALSE), RawFeature("f1", 5, TRUE),
              RawFeature("ai", 2, FALSE)>>
      [] content = "c2" ->
            <<RawFeature("n2", 4, FALSE), RawFeature("n1", 6, TRUE)>>
      [] OTHER ->
            <<RawFeature("n3", 7, FALSE), RawFeature("", 0, FALSE)>>

\* Lines 168-169: [f.strip() for f in features if f and len(f.strip()) >= 4]
RECURSIVE CleanFeatures(_)
CleanFeatures(raw) ==
    IF raw = <<>> THEN <<>>
    ELSE IF Head(raw).len >= MinFeatureLen
         THEN <<Head(raw).s>> \o CleanFeatures(Tail(raw))
         ELSE CleanFeatures(Tail(raw))

\* extract_features_from_content: llm is "ok" when chat_completion returns
\* a features object, "fail" when it raises or the answer does not parse.
ExtractFeaturesFromContent(content, llm) ==
    IF llm = "ok" THEN CleanFeatures(LlmFeatures(content)) ELSE <<>>

\* list(dict.fromkeys(s)): the first occurrence of each element, in order.
RECURSIVE DictFromKeys(_)
DictFromKeys(s) ==
    IF s = <<>> THEN <<>>
    ELSE LET r == DictFromKeys(SubSeq(s, 1, Len(s) - 1))
         IN  IF s[Len(s)] \in Range(r) THEN r ELSE Append(r, s[Len(s)])

\* Mutant: the list is kept as it is.
UniqueFeaturesKeepAll(all) == all

\* Lines 232 and 306: unique_features = list(dict.fromkeys(all_features))
UniqueFeatures(all) == DictFromKeys(all)

\* Mutant: the new features replace the old ones.
AllFeaturesNewOnly(old, new) == new

\* Line 305: all_features = old_features + new_features
AllFeatures(old, new) == old \o new

\* The urls read: those of the first max_pages results.
PageUrls(pages) == [i \in 1..Min(MaxPages, Len(pages)) |-> pages[i].url]

\* What read_urls can return for urls: one WebContent per url, in the order
\* the fetches complete, each a success or an error.
WebContents(us) ==
    {w \in [1..Len(us) -> [url : Range(us), success : BOOLEAN]] :
        \A i, j \in 1..Len(us) : w[i].url = w[j].url => i = j}

\* Lines 211-219: the features of the pages read successfully, in the order
\* of web_contents.
RECURSIVE PageFeatures(_, _)
PageFeatures(w, llm) ==
    IF w = <<>> THEN <<>>
    ELSE (IF Head(w).success
          THEN ExtractFeaturesFromContent(ContentOf(Head(w).url),
                                          llm[ContentOf(Head(w).url)])
          ELSE <<>>) \o PageFeatures(Tail(w), llm)

\* The texts the worker hands to the LLM.
LlmCallsMade(pages, w, llm) ==
    {ContentOf(w[i].url) : i \in {i \in 1..Len(w) : w[i].success}}
        \cup (IF /\ PageFeatures(w, llm) = <<>>
                 /\ \A i \in 1..Len(pages) : pages[i].snippet # NullSnippet
              THEN {Snippets} ELSE {})

\* extract_features_for_competitor on the results `pages`, when read_urls
\* returns w and the LLM does llm[c] for the text c.  kind is "exc" when the
\* worker raises ("\n".join over a None snippet); fetch and llm say how the
\* fetches and the LLM calls of the worker went.
ExtractFeaturesForCompetitor(pages, w, llm) ==
    LET fromPages == PageFeatures(w, llm)
        nullSnip  == \E i \in 1..Len(pages) : pages[i].snippet = NullSnippet
        calls     == LlmCallsMade(pages, w, llm)
        fetch     == IF pages = <<>> THEN "none"
                     ELSE IF \E i \in 1..Len(w) : w[i].success THEN "some"
                     ELSE "allfail"
        llmHow    == IF calls = {} THEN "none"
                     ELSE IF \A c \in calls : llm[c] = "fail" THEN "allfail"
                     ELSE "some"
    IN  IF pages = <<>>
        THEN [kind |-> "ok", new |-> <<>>, fetch |-> "none", llm |-> "none"]
        ELSE IF fromPages # <<>>
        THEN [kind |-> "ok", new |-> UniqueFeatures(fromPages),
              fetch |-> fetch, llm |-> llmHow]
        ELSE IF nullSnip
        THEN [kind |-> "exc", new |-> <<>>, fetch |-> fetch, llm |-> llmHow]
        ELSE [kind |-> "ok",
              new |-> UniqueFeatures(
                          ExtractFeaturesFromContent(Snippets, llm[Snippets])),
              fetch |-> fetch, llm |-> llmHow]

NoOutcome == [kind |-> "none", new |-> <<>>, fetch |-> "none", llm |-> "none"]

\* Lines 299-318: the entry appended for comp when its future has the
\* outcome o.
EnrichedEntry(comp, o) ==
    IF o.kind = "exc" THEN comp
    ELSE [name |-> comp.name,
          features |-> UniqueFeatures(AllFeatures(comp.features, o.new))]

\* Mutant: only the entries built from a worker's result are returned.
EnrichResultBuiltOnly(enr, ord, comps) ==
    LET built == {j \in 1..Len(enr) : enr[j] # comps[ord[j]]}
        Pick[j \in 0..Len(enr)] ==
            IF j = 0 THEN [e |-> <<>>, o |-> <<>>]
            ELSE IF j \in built
                 THEN [e |-> Append(Pick[j - 1].e, enr[j]),
                       o |-> Append(Pick[j - 1].o, ord[j])]
                 ELSE Pick[j - 1]
    IN  Pick[Len(enr)]

\* Lines 320-325: the competitors whose name no entry of enriched has are
\* appended, in input order; the list is returned with, for the model, the
\* input index of each entry.
EnrichResult(enr, ord, comps) ==
    LET processed == {enr[j].name : j \in 1..Len(enr)}
        Add[i \in 0..Len(comps)] ==
            IF i = 0 THEN [e |-> enr, o |-> ord]
            ELSE IF comps[i].name \notin processed
                 THEN [e |-> Append(Add[i - 1].e, comps[i]),
                       o |-> Append(Add[i - 1].o, i)]
                 ELSE Add[i - 1]
    IN  Add[Len(comps)]

MaxComps == 2

\* The validated competitors handed to enrich_competitors: their names are
\* pairwise distinct and their feature lists have no duplicates, as merged
\* lists have.
EnrichPool ==
    {ScoredCandidate(<<"A">>, <<"f2", "f1">>, 9, "rA"),
     ScoredCandidate(<<"B">>, <<>>, 7, "rB"),
     ScoredCandidate(<<"C">>, <<"f1">>, 6, "rC")}

EnrichInputs ==
    {cs \in SeqsUpTo(EnrichPool, MaxComps) :
        \A i, j \in 1..Len(cs) : cs[i].name = cs[j].name => i = j}

\* The futures of one pool after submit: the first max_workers run.
Submitted(n) ==
    [i \in 1..n |-> IF i <= EnrichWorkers THEN "running" ELSE "pending"]

\* The futures after worker i finished: the worker takes the next queued
\* task.
Finished(f, i) ==
    LET waiting == {j \in 1..Len(f) : f[j] = "pending"}
    IN  [j \in 1..Len(f) |->
            IF j = i THEN "done"
            ELSE IF j \in waiting /\ \A h \in waiting : j <= h THEN "running"
            ELSE f[j]]

(* SpecEnrich: one call of enrich_competitors *)

InitEnrich ==
    /\ pc = "enrich"
    /\ competitors \in EnrichInputs
    /\ sfut = <<>> /\ found = <<>> /\ search_results_map = EmptyMap
    /\ efut = <<>> /\ outcome = <<>> /\ enriched = <<>> /\ order = <<>>
    /\ validated = <<>>
    /\ raised = ""
    /\ IdleGen /\ IdleSearch /\ IdleRun /\ IdleMerge /\ IdleOther

\* Lines 259-273: the early return, or the submits of
\* search_competitors_parallel.
EnrichBegin ==
    /\ pc = "enrich"
    /\ IF competitors = <<>>
       THEN /\ pc' = "enrich_done"
            /\ UNCHANGED <<sfut, found>>
       ELSE /\ pc' = "enrich_search"
            /\ sfut' = Submitted(Len(competitors))
            /\ found' = [i \in 1..Len(competitors) |-> NotCalled]
    /\ UNCHANGED <<competitors, search_results_map, efut, outcome, enriched,
                   order, validated, raised>>
    /\ UNCHANGED <<genVars, searchVars, runVars, mergeVars, otherVars>>

\* A search worker ends search_single_competitor.
EnrichSearchFinish(i) ==
    /\ pc = "enrich_search"
    /\ sfut[i] = "running"
    /\ \E o \in EnrichProviderOutcomes : found' = [found EXCEPT ![i] = o]
    /\ sfut' = Finished(sfut, i)
    /\ UNCHANGED <<pc, competitors, search_results_map, efut, outcome,
                   enriched, order, validated, raised>>
    /\ UNCHANGED <<genVars, searchVars, runVars, mergeVars, otherVars>>

\* as_completed hands a finished search to the loop of lines 102-108.
EnrichSearchCollect(i) ==
    /\ pc = "enrich_search"
    /\ sfut[i] = "done"
    /\ sfut' = [sfut EXCEPT ![i] = "taken"]
    /\ search_results_map' =
          MapPut(search_results_map, competitors[i].name,
                 SearchSingleCompetitor(found[i]))
    /\ UNCHANGED <<pc, competitors, found, efut, outcome, enriched, order,
                   validated, raised>>
    /\ UNCHANGED <<genVars, searchVars, runVars, mergeVars, otherVars>>

\* Lines 276-294: search_competitors_parallel has returned; every
\* extraction is submitted.
EnrichSubmitExtract ==
    /\ pc = "enrich_search"
    /\ \A i \in 1..Len(sfut) : sfut[i] = "taken"
    /\ pc' = "enrich_extract"
    /\ efut' = Submitted(Len(competitors))
    /\ outcome' = [i \in 1..Len(competitors) |-> NoOutcome]
    /\ UNCHANGED <<competitors, sfut, found, search_results_map, enriched,
                   order, validated, raised>>
    /\ UNCHANGED <<genVars, searchVars, runVars, mergeVars, otherVars>>

\* An extraction worker ends extract_features_for_competitor.
EnrichExtractFinish(i) ==
    /\ pc = "enrich_extract"
    /\ efut[i] = "running"
    /\ LET pages == MapGet(search_results_map, competitors[i].name)
       IN  \E w \in WebContents(PageUrls(pages)),
              llm \in [Contents -> {"ok", "fail"}] :
              outcome' = [outcome EXCEPT
                             ![i] = ExtractFeaturesForCompetitor(pages, w, llm)]
    /\ efut' = Finished(efut, i)
    /\ UNCHANGED <<pc, competitors, sfut, found, search_results_map, enriched,
                   order, validated, raised>>
    /\ UNCHANGED <<genVars, searchVars, runVars, mergeVars, otherVars>>

\* as_completed hands a finished extraction to the loop of lines 296-315.
EnrichExtractCollect(i) ==
    /\ pc = "enrich_extract"
    /\ efut[i] = "done"
    /\ efut' = [efut EXCEPT ![i] = "taken"]
    /\ enriched' = Append(enriched, EnrichedEntry(competitors[i], outcome[i]))
    /\ order' = Append(order, i)
    /\ UNCHANGED <<pc, competitors, sfut, found, search_results_map, outcome,
                   validated, raised>>
    /\ UNCHANGED <<genVars, searchVars, runVars, mergeVars, otherVars>>

\* Lines 317-325: the pool is left, the result is completed and returned.
EnrichReturn ==
    /\ pc = "enrich_extract"
    /\ \A i \in 1..Len(efut) : efut[i] = "taken"
    /\ enriched' = EnrichResult(enriched, order, competitors).e
    /\ order' = EnrichResult(enriched, order, competitors).o
    /\ pc' = "enrich_done"
    /\ UNCHANGED <<competitors, sfut, found, search_results_map, efut,
                   outcome, validated, raised>>
    /\ UNCHANGED <<genVars, searchVars, runVars, mergeVars, otherVars>>

NextEnrich ==
    \/ EnrichBegin
    \/ \E i \in 1..Len(sfut) : EnrichSearchFinish(i)
    \/ \E i \in 1..Len(sfut) : EnrichSearchCollect(i)
    \/ EnrichSubmitExtract
    \/ \E i \in 1..Len(efut) : EnrichExtractFinish(i)
    \/ \E i \in 1..Len(efut) : EnrichExtractCollect(i)
    \/ EnrichReturn

SpecEnrich == InitEnrich /\ [][NextEnrich]_vars

-----------------------------------------------------------------------------
(* The worker pools of the stages, with more calls than threads *)

MaxTasks == 7

\* Mutant: a pool gets one thread per submitted call.
ThreadPerCall(stage, n) == n

\* max_workers of the pool of each stage for n submitted calls:
\* min(len(all_queries), 5) in search_all_parallel; max_workers, which
\* enrich_competitors takes as 4, in both pools of the enrichment.
\* extract_competitor_info makes its one LLM call in the calling thread.
MaxWorkersOf(stage, n) ==
    CASE stage = "search" -> Min(n, SearchWorkers)
      [] stage \in {"enrich_search", "enrich_extract"} -> EnrichWorkers
      [] OTHER -> 1

PoolStages == {"search", "extract", "enrich_search", "enrich_extract"}

\* The numbers of calls a stage can submit.
CallCounts(stage) == IF stage = "extract" THEN {1} ELSE 1..MaxTasks

InitPools ==
    /\ pc = "pool"
    /\ \E stage \in PoolStages : \E n \in CallCounts(stage) :
          /\ pool = [stage |-> stage, max_workers |-> MaxWorkersOf(stage, n)]
          /\ tasks = [i \in 1..n |-> "pending"]
    /\ raised = ""
    /\ validated = <<>>
    /\ IdleGen /\ IdleSearch /\ IdleRun /\ IdleMerge /\ IdleEnrich
    /\ IdleExtract /\ IdleRead /\ IdleApi

InFlightCalls == {i \in 1..Len(tasks) : tasks[i] = "running"}

\* A thread of the pool takes the oldest queued call; there are at most
\* max_workers threads.
PoolStart(i) ==
    /\ pc = "pool"
    /\ tasks[i] = "pending"
    /\ \A j \in 1..Len(tasks) : tasks[j] = "pending" => i <= j
    /\ Cardinality(InFlightCalls) < pool.max_workers
    /\ tasks' = [tasks EXCEPT ![i] = "running"]
    /\ UNCHANGED <<pc, pool, raised, genVars, searchVars, runVars, mergeVars>>
    /\ UNCHANGED <<validated, enrichVars, extractVars, readVars, apiVars>>

\* The call ends.
PoolFinish(i) ==
    /\ pc = "pool"
    /\ tasks[i] = "running"
    /\ tasks' = [tasks EXCEPT ![i] = "done"]
    /\ UNCHANGED <<pc, pool, raised, genVars, searchVars, runVars, mergeVars>>
    /\ UNCHANGED <<validated, enrichVars, extractVars, readVars, apiVars>>

\* The with block is left when every call has ended.
PoolExit ==
    /\ pc = "pool"
    /\ \A i \in 1..Len(tasks) : tasks[i] = "done"
    /\ pc' = "pool_left"
    /\ UNCHANGED <<pool, tasks, raised, genVars, searchVars, runVars, mergeVars>>
    /\ UNCHANGED <<validated, enrichVars, extractVars, readVars, apiVars>>

NextPools ==
    \/ \E i \in 1..Len(tasks) : PoolStart(i)
    \/ \E i \in 1..Len(tasks) : PoolFinish(i)
    \/ PoolExit

SpecPools == InitPools /\ [][NextPools]_vars

\* C26: at most 5 search-provider calls of the search fan-out, at most 4
\* extraction calls and at most 4 enrichment search or extraction calls are
\* in flight at any moment, however many calls were submitted.
C26_BoundedConcurrency ==
    /\ pool.stage = "search" => Cardinality(InFlightCalls) <= 5
    /\ pool.stage = "extract" => Cardinality(InFlightCalls) <= 4
    /\ pool.stage \in {"enrich_search", "enrich_extract"}
          => Cardinality(InFlightCalls) <= 4

\* Seven enrichment searches were submitted: four are in flight and three
\* wait for a thread.
C26_Witness ==
    /\ pool.stage = "enrich_search"
    /\ Len(tasks) = 7
    /\ Cardinality(InFlightCalls) = 4
    /\ Cardinality({i \in 1..Len(tasks) : tasks[i] = "pending"}) = 3

\* Seven searches were submitted and five are in flight.
C26_SearchWitness ==
    /\ pool.stage = "search"
    /\ Len(tasks) = 7
    /\ Cardinality(InFlightCalls) = 5

-----------------------------------------------------------------------------
(* The stages of the pipeline: the endpoints with run, and enrich_competitors *)

SpecPipeline == (InitApi \/ InitEnrich) /\ [][NextApi \/ NextEnrich]_vars

\* The futures of f whose call has not ended.
InFlight(f, ended) == {i \in 1..Len(f) : f[i] \notin ended}

\* C24: no stage starts before every worker of the stage before it has
\* ended.  Search workers exist only while search_all_parallel is inside
\* its pool, fetch workers only while read_urls is inside its pool; the
\* fetch is entered with every search result collected, the extraction and
\* the merge with every fetch collected; inside enrich_competitors an
\* extraction future exists only when every search future was collected.
C24_StageSynchronous ==
    /\ pc \notin {"collect", "unwinding"} => InFlight(fut, {"ok", "exc", "taken"}) = {}
    /\ pc # "read" => InFlight(rfut, {"done", "taken"}) = {}
    /\ pc \in {"read_call", "read", "extract", "merge", "done"}
          => InFlight(fut, {"taken"}) = {}
    /\ (pc \in {"merge", "done"} \/ extracted # <<>> \/ merged # <<>>)
          => InFlight(rfut, {"taken"}) = {} /\ Len(web_contents) = Len(rfut)
    /\ pc # "enrich_search" => InFlight(sfut, {"taken"}) = {}
    /\ efut # <<>> => sfut # <<>> /\ InFlight(sfut, {"taken"}) = {}
    /\ pc # "enrich_extract" => InFlight(efut, {"taken"}) = {}

\* Between f, out and their next values g, out2: one running worker ended
\* and no slot but its own changed.
OwnSlotOnly(f, out, g, out2, ended) ==
    /\ Len(out2) = Len(out)
    /\ \E i \in 1..Len(f) :
          /\ f[i] = "running" /\ g[i] \in ended
          /\ \A j \in (1..Len(out)) \ {i} : out2[j] = out[j]

\* Between f and its next value g: one ended future was taken by the loop
\* over as_completed.
TakenOne(f, g, ended) ==
    \E i \in 1..Len(f) : f[i] \in ended /\ g[i] = "taken"

\* l2 is l with one element appended.
Appended(l, l2) == Len(l2) = Len(l) + 1 /\ SubSeq(l2, 1, Len(l)) = l

\* C25: in the search fan-out, the batch fetch, the enrichment search and
\* the enrichment extraction, what a worker produced changes only in the
\* step that ends that worker and only in its own slot, and the result
\* collection changes only when the orchestrating thread takes an ended
\* worker's result (or, for enriched, after the pool was left).
C25_WorkersShareNothing ==
    [][/\ (provider # <<>> /\ provider' # provider)
            => OwnSlotOnly(fut, provider, fut', provider', {"ok", "exc"})
       /\ results' # results
            => TakenOne(fut, fut', {"ok", "exc"}) /\ Appended(results, results')
       /\ (fetched # <<>> /\ fetched' # fetched)
            => OwnSlotOnly(rfut, fetched, rfut', fetched', {"done"})
       /\ web_contents' # web_contents
            => TakenOne(rfut, rfut', {"done"}) /\ Appended(web_contents, web_contents')
       /\ (found # <<>> /\ found' # found)
            => OwnSlotOnly(sfut, found, sfut', found', {"done"})
       /\ search_results_map' # search_results_map
            => TakenOne(sfut, sfut', {"done"})
       /\ (outcome # <<>> /\ outcome' # outcome)
            => OwnSlotOnly(efut, outcome, efut', outcome', {"done"})
       /\ enriched' # enriched
            => \/ TakenOne(efut, efut', {"done"}) /\ Appended(enriched, enriched')
               \/ InFlight(efut, {"taken"}) = {}
      ]_vars

\* read_urls has taken the WebContent of one ended worker while another
\* ended worker waits to be taken.
C25_Witness ==
    /\ pc = "read"
    /\ Len(web_contents) = 1
    /\ \E i, j \in 1..Len(rfut) : rfut[i] = "taken" /\ rfut[j] = "done"

\* run has merged what was extracted after two searches and two fetches.
C24_Witness ==
    /\ pc = "done"
    /\ Len(fut) = 2 /\ Len(rfut) = 2
    /\ merged # <<>>

\* enrich_competitors has an extraction running for two competitors.
C24_EnrichWitness ==
    /\ pc = "enrich_extract"
    /\ Len(sfut) = 2
    /\ \E i \in 1..Len(efut) : efut[i] = "running"

(* Claims about enrich_competitors, under SpecEnrich *)

EnrichReturned == pc = "enrich_done" /\ competitors # <<>>

\* The entry of the returned list made for the i-th input competitor.
EntryOf(i) == enriched[CHOOSE j \in 1..Len(order) : order[j] = i]

\* C15: the returned list has an entry for every input competitor, under
\* its name, whatever the searches, the fetches and the LLM did.
C15_EveryInputNamePresent ==
    EnrichReturned
        => /\ \A i \in 1..Len(competitors) :
                 \E j \in 1..Len(order) :
                    order[j] = i /\ enriched[j].name = competitors[i].name
           /\ Len(enriched) = Len(competitors)

\* A's worker raised and B's search threw: both are returned.
C15_Witness ==
    /\ EnrichReturned
    /\ Len(competitors) = 2
    /\ competitors[1].name = <<"A">> /\ competitors[2].name = <<"B">>
    /\ outcome[1].kind = "exc"
    /\ found[2].call = "threw"
    /\ {enriched[j].name : j \in 1..Len(enriched)} = {<<"A">>, <<"B">>}

\* The search of the i-th competitor raised, or all its fetches failed, or
\* all its LLM extractions raised or did not parse.
EnrichmentFailed(i) ==
    \/ found[i].call = "threw"
    \/ outcome[i].fetch = "allfail"
    \/ outcome[i].llm = "allfail"

\* C16 as stated: a competitor whose search raised, whose fetches failed or
\* whose LLM extraction failed is returned with its original features list.
C16_FailedKeepsFeatures ==
    EnrichReturned
        => \A i \in 1..Len(competitors) :
              EnrichmentFailed(i)
                  => EntryOf(i).features = competitors[i].features

\* The search of the i-th competitor raised, or every LLM extraction made
\* for it (on its pages, or on its snippets) failed, or its worker raised.
NothingExtracted(i) ==
    \/ found[i].call = "threw"
    \/ outcome[i].llm = "allfail"
    \/ outcome[i].kind = "exc"

\* C16 amended: a competitor whose search raised, whose every LLM extraction
\* failed or whose worker raised is returned with its original features
\* list, and every competitor's entry holds what its own worker extracted.
C16_NothingExtractedKeepsFeatures ==
    EnrichReturned
        => /\ \A i \in 1..Len(competitors) :
                 NothingExtracted(i)
                     => EntryOf(i).features = competitors[i].features
           /\ \A i \in 1..Len(competitors) :
                 Range(outcome[i].new) \subseteq Range(EntryOf(i).features)

\* Every LLM call for A failed; C, searched and read, gained two features.
C16_Witness ==
    /\ EnrichReturned
    /\ Len(competitors) = 2
    /\ competitors[1].name = <<"A">> /\ competitors[2].name = <<"C">>
    /\ outcome[1].fetch = "some" /\ outcome[1].llm = "allfail"
    /\ EntryOf(1).features = <<"f2", "f1">>
    /\ outcome[2].new = <<"n1", "f1", "n2">>
    /\ EntryOf(2).features = <<"f1", "n1", "n2">>

\* The place of x in the list l.
FirstIndex(l, x) == CHOOSE p \in 1..Len(l) : l[p] = x /\ \A q \in 1..(p - 1) : l[q] # x

\* C17: the features list of every returned entry has no duplicate, holds
\* exactly the old and the newly extracted features, the old ones first in
\* their order, then the new ones in the order they were extracted.
C17_FeaturesMergedInFirstSeenOrder ==
    EnrichReturned
        => \A i \in 1..Len(competitors) :
              LET f   == EntryOf(i).features
                  old == competitors[i].features
                  new == outcome[i].new
              IN  /\ \A p, q \in 1..Len(f) : f[p] = f[q] => p = q
                  /\ Range(f) = Range(old) \cup Range(new)
                  /\ Len(f) >= Len(old)
                  /\ SubSeq(f, 1, Len(old)) = old
                  /\ \A p, q \in (Len(old) + 1)..Len(f) :
                        p < q => FirstIndex(new, f[p]) < FirstIndex(new, f[q])

\* The second page completed first: A gets n2 and n1 behind f2 and f1, and
\* f1, extracted again, stays where it was.
C17_Witness ==
    /\ EnrichReturned
    /\ competitors[1].name = <<"A">>
    /\ outcome[1].new = <<"n2", "n1", "f1">>
    /\ EntryOf(1).features = <<"f2", "f1", "n2", "n1">>

\* l without the repetitions of its elements.
WithoutRepeats(l) ==
    LET first == {p \in 1..Len(l) : \A q \in 1..(p - 1) : l[q] # l[p]}
        Keep[p \in 0..Len(l)] ==
            IF p = 0 THEN <<>>
            ELSE IF p \in first THEN Append(Keep[p - 1], l[p]) ELSE Keep[p - 1]
    IN  Keep[Len(l)]

\* The features the i-th competitor is to be returned with, given what its
\* own extraction ended with.
FeaturesFor(i) ==
    IF outcome[i].kind = "exc" THEN competitors[i].features
    ELSE WithoutRepeats(competitors[i].features \o outcome[i].new)

\* C30: whatever the order in which the searches and the extractions end
\* and are collected, the returned list has exactly one entry per input
\* competitor; each extraction was given the search results of its own
\* competitor, and each name comes with the features that follow from its
\* own search and extraction.
C30_ContentIndependentOfCompletionOrder ==
    EnrichReturned
        => /\ Len(order) = Len(competitors)
           /\ \A i \in 1..Len(competitors) :
                 Cardinality({j \in 1..Len(order) : order[j] = i}) = 1
           /\ \A i \in 1..Len(competitors) :
                 MapGet(search_results_map, competitors[i].name)
                    = SearchSingleCompetitor(found[i])
           /\ \A j \in 1..Len(enriched) :
                 /\ enriched[j].name = competitors[order[j]].name
                 /\ enriched[j].features = FeaturesFor(order[j])

\* The second competitor's search and extraction were collected first; the
\* first competitor's search found three pages, the second's none.
C30_Witness ==
    /\ EnrichReturned
    /\ order = <<2, 1>>
    /\ found[1].call = "ok" /\ Len(found[1].pages) = 3
    /\ found[2].call = "ok" /\ found[2].pages = <<>>
    /\ outcome[1].new # <<>>

\* C18: every returned entry has the name, the score and the reason of its
\* input competitor.
C18_OtherFieldsKept ==
    EnrichReturned
        => \A j \in 1..Len(order) :
              LET c == competitors[order[j]]
                  e == enriched[j]
              IN  /\ e.name = c.name
                  /\ {"score", "reason"} \subseteq DOMAIN e
                  /\ e.score = c.score
                  /\ e.reason = c.reason

-----------------------------------------------------------------------------
(* extract_competitor_info: the LLM step (lines 249-360).  The answer of    *)
(* the LLM is a text, a sequence of tokens: the JSON punctuation, the       *)
(* double quote "<q>", a code fence "<fence>", the word json, whitespace    *)
(* " " and "nl", an ellipsis "...", the full-width colon "<fwcolon>", a     *)
(* run of prose "txt", and the characters and words of strings.             *)

Quote == "<q>"
Fence == "<fence>"
Dots == "..."
FwColon == "<fwcolon>"
WsStar == "<ws*>"
Ws == {" ", "nl"}

Drop(t, n) == SubSeq(t, n + 1, Len(t))

\* The element of a one-element set.  A value that is used more than once is
\* bound by such a set, { e(x) : x \in {v} }, and so computed once.
Only(S) == CHOOSE x \in S : TRUE

\* str.find(x, from): the first index at or behind `from`, 0 when there is
\* none.
IndexFrom(t, x, from) ==
    Only({IF I = {} THEN 0 ELSE CHOOSE i \in I : \A j \in I : i <= j
             : I \in {{i \in from..Len(t) : t[i] = x}}})

IndexOf(t, x) == IndexFrom(t, x, 1)

(* JSON values, as json.loads builds them *)

JV(t, str, keys, items) == [t |-> t, s |-> str, keys |-> keys, items |-> items]
JStr(str) == JV("str", str, <<>>, <<>>)
JNum(d) == JV("num", <<d>>, <<>>, <<>>)
JNull == JV("null", <<>>, <<>>, <<>>)
JArr(items) == JV("arr", <<>>, <<>>, items)
JObj(keys, items) == JV("obj", <<>>, keys, items)

\* The value under key k of a dict, the last one written.
ObjHas(v, k) == v.t = "obj" /\ \E i \in 1..Len(v.keys) : v.keys[i] = k
ObjGet(v, k) ==
    v.items[CHOOSE i \in 1..Len(v.keys) :
               v.keys[i] = k /\ \A j \in (i + 1)..Len(v.keys) : v.keys[j] # k]

\* bool(v)
Truthy(v) ==
    CASE v.t = "str" -> v.s # <<>>
      [] v.t = "num" -> v.s # <<"0">>
      [] v.t = "null" -> FALSE
      [] OTHER -> v.items # <<>>

\* The JSON text of a value; sep is what the writer puts behind "," and ":".
RECURSIVE ToText(_, _)
ToText(v, sep) ==
    LET Members[i \in 0..Len(v.items)] ==
            IF i = 0 THEN <<>>
            ELSE Members[i - 1]
                 \o (IF i > 1 THEN <<",">> \o sep ELSE <<>>)
                 \o (IF v.t = "obj"
                     THEN <<Quote>> \o v.keys[i] \o <<Quote, ":">> \o sep
                     ELSE <<>>)
                 \o ToText(v.items[i], sep)
    IN  CASE v.t = "str" -> <<Quote>> \o v.s \o <<Quote>>
          [] v.t = "num" -> v.s
          [] v.t = "null" -> <<"null">>
          [] v.t = "arr" -> <<"[">> \o Members[Len(v.items)] \o <<"]">>
          [] OTHER -> <<"{">> \o Members[Len(v.items)] \o <<"}">>

(* json.loads *)

\* The first index at or behind i that holds no whitespace, Len(t) + 1 when
\* there is none.
NextNonWs(t, i) ==
    Only({IF I = {} THEN Len(t) + 1 ELSE CHOOSE j \in I : \A h \in I : j <= h
             : I \in {{j \in i..Len(t) : t[j] \notin Ws}}})

SkipWs(t) == Only({Drop(u, NextNonWs(u, 1) - 1) : u \in {t}})

\* str.strip() of a text.
StripWs(t) ==
    Only({SubSeq(u, 1, IF u = <<>> THEN 0
                       ELSE CHOOSE i \in 1..Len(u) :
                               /\ u[i] \notin Ws
                               /\ \A j \in (i + 1)..Len(u) : u[j] \in Ws)
             : u \in {SkipWs(t)}})

ParseFail == [ok |-> FALSE, v |-> JNull, rest |-> <<>>]
Parsed(v, rest) == [ok |-> TRUE, v |-> v, rest |-> rest]

\* A parse result with the whitespace behind the value skipped.
ThenWs(r) == Only({[ok |-> x.ok, v |-> x.v, rest |-> SkipWs(x.rest)] : x \in {r}})

Digits == {"0", "7", "9"}

\* A string literal at the head of t: up to the next quote, no line break
\* in it.
ParseString(t) ==
    Only({IF j = 0 \/ \E i \in 2..(j - 1) : t[i] = "nl" THEN ParseFail
          ELSE Parsed(JStr(SubSeq(t, 2, j - 1)), Drop(t, j))
             : j \in {IndexFrom(t, Quote, 2)}})

RECURSIVE ParseValue(_), ParseArr(_, _, _), ParseObj(_, _, _, _)

\* The value at the head of t, t without leading whitespace.
ParseValue(t) ==
    IF t = <<>> THEN ParseFail
    ELSE CASE Head(t) = Quote -> ParseString(t)
           [] Head(t) = "[" -> ParseArr(Tail(t), <<>>, TRUE)
           [] Head(t) = "{" -> ParseObj(Tail(t), <<>>, <<>>, TRUE)
           [] Head(t) \in Digits -> Parsed(JNum(Head(t)), Tail(t))
           [] Head(t) = "null" -> Parsed(JNull, Tail(t))
           [] OTHER -> ParseFail

\* The rest of an array behind "[" (first) or behind ",".
ParseArr(t, acc, first) ==
    Only({IF u = <<>> THEN ParseFail
          ELSE IF Head(u) = "]"
          THEN (IF first THEN Parsed(JArr(acc), Tail(u)) ELSE ParseFail)
          ELSE Only({IF ~r.ok \/ r.rest = <<>> THEN ParseFail
                     ELSE IF Head(r.rest) = ","
                     THEN ParseArr(Tail(r.rest), Append(acc, r.v), FALSE)
                     ELSE IF Head(r.rest) = "]"
                     THEN Parsed(JArr(Append(acc, r.v)), Tail(r.rest))
                     ELSE ParseFail
                        : r \in {ThenWs(ParseValue(u))}})
             : u \in {SkipWs(t)}})

\* The rest of an object behind "{" (first) or behind ",".
ParseObj(t, keys, vals, first) ==
    Only({IF u = <<>> THEN ParseFail
          ELSE IF Head(u) = "}"
          THEN (IF first THEN Parsed(JObj(keys, vals), Tail(u)) ELSE ParseFail)
          ELSE IF Head(u) # Quote THEN ParseFail
          ELSE Only({IF ~k.ok \/ k.rest = <<>> \/ Head(k.rest) # ":"
                     THEN ParseFail
                     ELSE Only({IF ~r.ok \/ r.rest = <<>> THEN ParseFail
                                ELSE IF Head(r.rest) = ","
                                THEN ParseObj(Tail(r.rest), Append(keys, k.v.s),
                                              Append(vals, r.v), FALSE)
                                ELSE IF Head(r.rest) = "}"
                                THEN Parsed(JObj(Append(keys, k.v.s),
                                                 Append(vals, r.v)),
                                            Tail(r.rest))
                                ELSE ParseFail
                                   : r \in {ThenWs(ParseValue(c))
                                               : c \in {SkipWs(Tail(k.rest))}}})
                        : k \in {ThenWs(ParseString(u))}})
             : u \in {SkipWs(t)}})

\* json.loads(t): ok is FALSE for a JSONDecodeError.
JsonLoadsText(t) ==
    Only({IF r.ok /\ r.rest = <<>> THEN r ELSE ParseFail
             : r \in {ThenWs(ParseValue(u)) : u \in {SkipWs(t)}}})

(* The regular expressions of the cleanup *)

\* The index behind the match of the pattern at index i of t, 0 when it does
\* not match there; an item of pat is a token, or WsStar for \s*.
MatchEnd(t, i, pat) ==
    LET End[k \in 1..(Len(pat) + 1), j \in 1..(Len(t) + 1)] ==
            IF k > Len(pat) THEN j
            ELSE IF pat[k] = WsStar THEN End[k + 1, NextNonWs(t, j)]
            ELSE IF j <= Len(t) /\ t[j] = pat[k] THEN End[k + 1, j + 1]
            ELSE 0
    IN  End[1, i]

\* The first index at or behind `from` where the pattern matches, 0 when
\* there is none.
FindPat(t, pat, from) ==
    Only({IF I = {} THEN 0 ELSE CHOOSE i \in I : \A j \in I : i <= j
             : I \in {{i \in from..Len(t) : MatchEnd(t, i, pat) > 0}}})

\* re.sub(pat, repl, t)
ReSub(t, pat, repl) ==
    LET Out[i \in 1..(Len(t) + 1)] ==
            Only({IF m = 0 THEN SubSeq(t, i, Len(t))
                  ELSE SubSeq(t, i, m - 1) \o repl \o Out[MatchEnd(t, m, pat)]
                     : m \in {FindPat(t, pat, i)}})
    IN  Out[1]

\* Lines 253-258: the body of the first fenced block, when the text has an
\* opening fence and a later one:  ```(?:json)?\s*([\s\S]*?)\s*```
FenceBody(t) ==
    Only({IF i = 0 THEN t
          ELSE Only({IF j = 0 THEN t ELSE StripWs(SubSeq(t, a + 1, j - 1))
                        : a \in {IF i < Len(t) /\ t[i + 1] = "json"
                                 THEN i + 1 ELSE i},
                          j \in {IndexFrom(t, Fence,
                                           IF i < Len(t) /\ t[i + 1] = "json"
                                           THEN i + 2 ELSE i + 1)}})
             : i \in {IndexOf(t, Fence)}})

\* Lines 261-263: the text from its first "{".
FromFirstBrace(t) ==
    Only({IF i = 0 THEN t ELSE Drop(t, i - 1) : i \in {IndexOf(t, "{")}})

\* Line 271: json_str.replace(full-width colon, ':')
ReplaceFwColon(t) == [i \in 1..Len(t) |-> IF t[i] = FwColon THEN ":" ELSE t[i]]

\* Lines 273-274: a trailing "..." is cut off.
CutDots(t) ==
    IF t # <<>> /\ t[Len(t)] = Dots
    THEN StripWs(SubSeq(t, 1, Len(t) - 1)) ELSE t

\* Lines 267-274: the repairs of the text, in the order of the code.
CleanJson(t) ==
    Only({CutDots(c)
             : c \in {ReplaceFwColon(b)
                 : b \in {ReSub(a, <<Quote, WsStar, Quote>>,
                                <<Quote, ",", " ", Quote>>)
                     : a \in {ReSub(t, <<"}", WsStar, "{">>,
                                    <<"}", ",", " ", "{">>)}}}})

\* Lines 286-320: the text is closed with "]}" behind its last "}", then
\* behind the one before, until a text parses.
RepairTruncated(t) ==
    Only({IF cs = 0 \/ IndexFrom(t, "[", cs) = 0 \/ good = {} THEN ParseFail
          ELSE Only({JsonLoadsText(x)
                        : x \in {SubSeq(t, 1, i) \o <<"]", "}">>
                            : i \in {i \in good : \A h \in good : h <= i}}})
             : cs \in {FindPat(t, <<Quote, "competitors", Quote>>, 1)},
               good \in {{i \in 1..Len(t) :
                            /\ t[i] = "}"
                            /\ Only({JsonLoadsText(x).ok
                                        : x \in {SubSeq(t, 1, i)
                                                    \o <<"]", "}">>}})}}})

\* Lines 277-320: parsed_json, JNull standing for None.
ParsedJson(t) ==
    Only({IF a.ok THEN a.v
          ELSE Only({IF b.ok THEN b.v ELSE JNull : b \in {RepairTruncated(t)}})
             : a \in {JsonLoadsText(t)}})

Raises(e) == [exc |-> e, val |-> JNull]
Gives(v) == [exc |-> "", val |-> v]

\* Lines 323-325: "competitors" in parsed_json is a key test on a dict, a
\* membership test on a list, a substring test on a str and a TypeError on
\* a number; indexing a list or a str with "competitors" is a TypeError.
CompetitorsOf(parsed) ==
    IF ~Truthy(parsed) THEN Gives(JArr(<<>>))
    ELSE CASE parsed.t = "obj" ->
                 IF ObjHas(parsed, <<"competitors">>)
                 THEN Gives(ObjGet(parsed, <<"competitors">>))
                 ELSE Gives(JArr(<<>>))
           [] parsed.t = "arr" ->
                 IF JStr(<<"competitors">>) \in Range(parsed.items)
                 THEN Raises("TypeError") ELSE Gives(JArr(<<>>))
           [] parsed.t = "str" ->
                 IF "competitors" \in Range(parsed.s)
                 THEN Raises("TypeError") ELSE Gives(JArr(<<>>))
           [] OTHER -> Raises("TypeError")

\* re.findall(r'"(.*?)"', t): the strings between successive pairs of
\* quotes.
FindAllQuoted(t) ==
    LET Out[i \in 1..(Len(t) + 2)] ==
            Only({IF a = 0 \/ b = 0 THEN <<>>
                  ELSE <<JStr(SubSeq(t, a + 1, b - 1))>> \o Out[b + 1]
                     : a \in {IndexFrom(t, Quote, i)},
                       b \in {IndexFrom(t, Quote,
                                        IndexFrom(t, Quote, i) + 1)}})
    IN  Out[1]

BlockHead == <<"{", WsStar, Quote, "name", Quote, WsStar, ":", WsStar, Quote>>
BlockMid ==
    <<Quote, WsStar, ",", WsStar, Quote, "features", Quote, WsStar, ":",
      WsStar, "[">>
BlockTail == <<"]", WsStar, "}">>

\* Lines 332-344: re.findall of
\*   \{\s*"name"\s*:\s*"(.*?)"\s*,\s*"features"\s*:\s*\[(.*?)\]\s*\}
\* each match made a dict of the name and the quoted strings of the
\* features group: the name ends at the first q and the group at the first r
\* that let the rest of the pattern match.  The text has no single quotes.
Salvage(t) ==
    LET Block(h, q) ==
            Only({<<JObj(<<<<"name">>, <<"features">>>>,
                         <<JStr(SubSeq(t, h, q - 1)),
                           JArr(FindAllQuoted(SubSeq(t, f, r - 1)))>>),
                    MatchEnd(t, r, BlockTail)>>
                     : f \in {MatchEnd(t, q, BlockMid)},
                       r \in {FindPat(t, BlockTail, MatchEnd(t, q, BlockMid))}})
        Out[i \in 1..(Len(t) + 1)] ==
            Only({IF s = 0 THEN <<>>
                  ELSE Only({IF qs = {} THEN Out[s + 1]
                             ELSE Only({<<m[1]>> \o Out[m[2]]
                                 : m \in {Block(h, q)
                                     : q \in {q \in qs :
                                               \A y \in qs : q <= y}}})
                         : h \in {MatchEnd(t, s, BlockHead)},
                           qs \in {{q \in MatchEnd(t, s, BlockHead)..Len(t) :
                               /\ MatchEnd(t, q, BlockMid) > 0
                               /\ FindPat(t, BlockTail,
                                          MatchEnd(t, q, BlockMid)) > 0}}})
                     : s \in {FindPat(t, BlockHead, i)}})
    IN  Out[1]

\* Lines 328-344: the fallback on a falsy `competitors`; append on a value
\* that is not a list is an AttributeError.
WithSalvage(comps, t) ==
    IF Truthy(comps) THEN Gives(comps)
    ELSE Only({IF s = <<>> THEN Gives(comps)
               ELSE IF comps.t = "arr" THEN Gives(JArr(s))
               ELSE Raises("AttributeError")
                  : s \in {Salvage(t)}})

\* str(comp["name"])
StrOf(v) == IF v.t \in {"str", "num"} THEN v.s ELSE <<"<repr>">>

\* Line 352: comp.get("features", []) if it is a list, else [].
EntryFeatures(comp) ==
    IF ObjHas(comp, <<"features">>) /\ ObjGet(comp, <<"features">>).t = "arr"
    THEN ObjGet(comp, <<"features">>)
    ELSE JArr(<<>>)

\* Lines 347-353: one {"name", "features"} dict per dict with a name; a
\* number or None cannot be iterated, a str or a dict yields no dict.
FinalResults(comps) ==
    LET Keep[i \in 0..Len(comps.items)] ==
            IF i = 0 THEN <<>>
            ELSE IF ObjHas(comps.items[i], <<"name">>)
                 THEN Append(Keep[i - 1],
                             [name |-> JStr(StrOf(ObjGet(comps.items[i],
                                                         <<"name">>))),
                              features |-> EntryFeatures(comps.items[i])])
                 ELSE Keep[i - 1]
    IN  CASE comps.t \in {"num", "null"} -> [exc |-> "TypeError", val |-> <<>>]
          [] comps.t = "arr" -> [exc |-> "", val |-> Keep[Len(comps.items)]]
          [] OTHER -> [exc |-> "", val |-> <<>>]

\* Lines 250-356: the body of the try.
Attempt(resp) ==
    IF resp.kind = "exception" THEN [exc |-> "LLMError", val |-> <<>>]
    ELSE Only({
        Only({IF found1.exc # "" THEN [exc |-> found1.exc, val |-> <<>>]
              ELSE Only({IF found2.exc # ""
                         THEN [exc |-> found2.exc, val |-> <<>>]
                         ELSE FinalResults(found2.val)
                            : found2 \in {WithSalvage(found1.val, json_str)}})
                 : found1 \in {CompetitorsOf(parsed_json)
                                  : parsed_json \in {ParsedJson(json_str)}}})
           : json_str \in {CleanJson(c)
               : c \in {FromFirstBrace(b)
                   : b \in {FenceBody(a) : a \in {StripWs(resp.text)}}}}})

\* Mutant: the exception leaves the function.
Reraised(a) == a

\* Lines 358-360: except Exception: return []
Caught(a) == IF a.exc # "" THEN [exc |-> "", val |-> <<>>] ELSE a

\* extract_competitor_info up to its return.
ExtractCompetitorInfo(data, resp) ==
    IF data = <<>> THEN [exc |-> "", val |-> <<>>]
    ELSE Only({Caught(a) : a \in {Attempt(resp)}})

(* What the LLM can answer *)

NameFeatures(name, feats) ==
    JObj(<<<<"name">>, <<"features">>>>, <<name, feats>>)
Scored(name, feats, score, reason) ==
    JObj(<<<<"name">>, <<"features">>, <<"score">>, <<"reason">>>>,
         <<name, feats, score, reason>>)

OA == NameFeatures(JStr(<<"A">>), JArr(<<JStr(<<"f">>), JStr(<<"g", " ", "h">>)>>))
OB == NameFeatures(JStr(<<"B">>), JArr(<<>>))
OScored ==
    Scored(JStr(<<"A">>), JArr(<<JStr(<<"f">>)>>), JNum("9"), JStr(<<"r">>))
OEmptyFeature == NameFeatures(JStr(<<"A">>), JArr(<<JStr(<<>>), JStr(<<"f">>)>>))
OFwColon == NameFeatures(JStr(<<"A">>), JArr(<<JStr(<<"f", FwColon, "g">>)>>))
ONoName == JObj(<<<<"features">>>>, <<JArr(<<JStr(<<"f">>)>>)>>)
OFeatureText == NameFeatures(JNum("7"), JStr(<<"f">>))

WithCompetitors(v) == JObj(<<<<"competitors">>>>, <<v>>)

\* Answers of the asked schema.
SchemaDocs ==
    {WithCompetitors(JArr(l)) :
        l \in {<<>>, <<OA>>, <<OA, OB>>, <<OScored, OB>>, <<OEmptyFeature>>,
               <<OFwColon>>}}

\* Answers of another schema.
OtherDocs ==
    {WithCompetitors(JArr(<<JStr(<<"A">>), ONoName, OFeatureText, OB>>)),
     WithCompetitors(JNum("9")),
     WithCompetitors(JNull),
     WithCompetitors(JStr(<<"A">>)),
     WithCompetitors(OA),
     JObj(<<<<"products">>>>, <<JArr(<<OA, OScored>>)>>),
     JObj(<<<<"competitors">>>>, <<JNum("0")>>) ,
     JArr(<<OA>>),
     JArr(<<JStr(<<"competitors">>)>>),
     JStr(<<"competitors">>),
     JNum("9")}

ExtractDocs == SchemaDocs \cup OtherDocs

Wrappers ==
    {"bare", "fenced_json", "fenced", "prose_fenced_json", "prose_bare",
     "unclosed_fence", "dots"}

\* The answer that holds the JSON text t in the form w.
Wrap(w, t) ==
    CASE w = "bare" -> t
      [] w = "fenced_json" -> <<Fence, "json", "nl">> \o t \o <<"nl", Fence>>
      [] w = "fenced" -> <<Fence, "nl">> \o t \o <<"nl", Fence, "nl">>
      [] w = "prose_fenced_json" ->
            <<"txt", "nl", Fence, "json", "nl">> \o t
                \o <<"nl", Fence, "nl", "txt">>
      [] w = "prose_bare" -> <<"txt", "nl">> \o t \o <<"nl", "txt">>
      [] w = "unclosed_fence" -> <<Fence, "json", "nl">> \o t
      [] OTHER -> t \o <<Dots>>

TextResponse(doc, w, sep, cut) ==
    [kind |-> "text", text |-> Wrap(w, SubSeq(ToText(doc, sep), 1, cut)),
     doc |-> doc, wrapper |-> w,
     whole |-> cut = Len(ToText(doc, sep))]

\* chat_completion raises, or returns a text: a document whole in any
\* form, or cut off (the output limit) bare, behind an opening fence or
\* before an ellipsis; the empty text and plain prose are cuts at 0.
ExtractResponses ==
    {[kind |-> "exception", text |-> <<>>, doc |-> JNull, wrapper |-> "none",
      whole |-> FALSE]}
    \cup {TextResponse(d, w, sep, Len(ToText(d, sep))) :
             d \in ExtractDocs, w \in Wrappers, sep \in {<<>>, <<" ">>}}
    \cup UNION {{TextResponse(d, w, <<>>, cut) :
                    cut \in 0..(Len(ToText(d, <<>>)) - 1)} :
                   d \in ExtractDocs,
                   w \in {"bare", "prose_bare", "unclosed_fence", "dots"}}

(* SpecExtract: one call of extract_competitor_info *)

InitExtract ==
    /\ pc = "extract_info"
    /\ \/ competitor_data = <<>> /\ response = NoResponse
       \/ competitor_data = <<P1>> /\ response \in ExtractResponses
    /\ failing = {}
    /\ raised = ""
    /\ validated = <<>>
    /\ IdleGen /\ IdleSearch /\ IdleRun /\ IdleMerge /\ IdleEnrich
    /\ IdleRead /\ IdleApi /\ IdlePool

ExtractCall ==
    /\ pc = "extract_info"
    /\ \E r \in {ExtractCompetitorInfo(competitor_data, response)} :
           /\ extracted' = r.val
           /\ raised' = r.exc
           /\ pc' = IF r.exc = "" THEN "extract_done" ELSE "raised"
    /\ UNCHANGED <<urls, web_ok, result, validated, enrichVars, otherVars>>
    /\ UNCHANGED <<genVars, searchVars, mergeVars>>

NextExtract == ExtractCall

SpecExtract == InitExtract /\ [][NextExtract]_vars

(* Claims about extract_competitor_info, under SpecExtract *)

LlmStepEnded == pc \in {"extract_done", "raised"} /\ competitor_data # <<>>

\* C19: whatever chat_completion does (an exception, an empty text, a text
\* that is no JSON, a JSON text cut before its closing brackets, a JSON of
\* another schema), the call returns, and returns a list whose entries have
\* a string name and a list of features; the list is empty when
\* chat_completion raised or returned the empty text.
C19_ExtractNeverRaises ==
    LlmStepEnded
        => /\ pc = "extract_done" /\ raised = ""
           /\ (response.kind = "exception" \/ response.text = <<>>)
                 => extracted = <<>>
           /\ \A i \in 1..Len(extracted) :
                 /\ extracted[i].name.t = "str"
                 /\ extracted[i].features.t = "arr"

\* The answer was cut inside its second object: the first one is returned.
C19_Witness ==
    /\ LlmStepEnded
    /\ response.doc = WithCompetitors(JArr(<<OA, OB>>))
    /\ response.wrapper = "unclosed_fence" /\ ~response.whole
    /\ extracted = <<[name |-> JStr(<<"A">>), features |-> ObjGet(OA, <<"features">>)]>>

\* The answer is a whole document {"competitors": [...]} of objects with a
\* string name and a list of feature strings, in a json fence.
FencedSchemaAnswer ==
    /\ response.kind = "text" /\ response.whole
    /\ response.wrapper \in {"fenced_json", "prose_fenced_json"}
    /\ response.doc \in SchemaDocs

\* C20: for such an answer the returned list is the competitors array of the
\* document: as many entries, in order, each with the name, the feature
\* strings, the score and the reason of its object.
C20_FencedJsonRecoveredExactly ==
    (LlmStepEnded /\ FencedSchemaAnswer)
        => LET objs == ObjGet(response.doc, <<"competitors">>).items
           IN  /\ pc = "extract_done"
               /\ Len(extracted) = Len(objs)
               /\ \A i \in 1..Len(objs) :
                     /\ extracted[i].name = ObjGet(objs[i], <<"name">>)
                     /\ extracted[i].features = ObjGet(objs[i], <<"features">>)
                     /\ \A k \in {"score", "reason"} :
                           ObjHas(objs[i], <<k>>)
                               => /\ k \in DOMAIN extracted[i]
                                  /\ extracted[i][k] = ObjGet(objs[i], <<k>>)

-----------------------------------------------------------------------------
(* SpecSources: extract_competitor_info on several sources.  Lines 218-250 *)
(* put every source into one prompt and make one chat_completion call.  The *)
(* LLM fails (it raises, or answers with prose) when the prompt holds a     *)
(* source of `failing`; else it answers with what each source mentions.     *)

P3 == Page("t3", "u3", "s3")

\* The competitor a correct extraction finds in a source.
MentionedIn(p) ==
    CASE p.url = "u1" -> OA
      [] p.url = "u2" -> OB
      [] OTHER -> NameFeatures(JStr(<<"C">>), JArr(<<JStr(<<"h">>)>>))

\* The lists of one to three different sources.
SourceLists ==
    {<<p>> : p \in {P1, P2, P3}}
    \cup {l \in {<<p, q>> : p \in {P1, P2, P3}, q \in {P1, P2, P3}} :
              l[1] # l[2]}
    \cup {<<P1, P2, P3>>, <<P3, P1, P2>>, <<P2, P3, P1>>}

FailureModes == {"exception", "prose"}

\* Line 250: the outcome of the one call made for the prompt built of data.
AnswerTo(data, bad, mode) ==
    IF \E i \in 1..Len(data) : data[i].url \in bad
    THEN IF mode = "exception"
         THEN [kind |-> "exception", text |-> <<>>, doc |-> JNull,
               wrapper |-> "none", whole |-> FALSE]
         ELSE [kind |-> "text", text |-> <<"txt">>, doc |-> JNull,
               wrapper |-> "none", whole |-> FALSE]
    ELSE Only({TextResponse(d, "fenced_json", <<>>, Len(ToText(d, <<>>)))
                  : d \in {WithCompetitors(
                              JArr([i \in 1..Len(data) |->
                                       MentionedIn(data[i])]))}})

InitSources ==
    /\ pc = "extract_info"
    /\ competitor_data \in SourceLists
    /\ failing \in SUBSET {"u1", "u2", "u3"}
    /\ \E mode \in FailureModes :
          response = AnswerTo(competitor_data, failing, mode)
    /\ raised = ""
    /\ validated = <<>>
    /\ IdleGen /\ IdleSearch /\ IdleRun /\ IdleMerge /\ IdleEnrich
    /\ IdleRead /\ IdleApi /\ IdlePool

SpecSources == InitSources /\ [][NextExtract]_vars

\* The entry the stage returns for an object of the answer.
EntryFor(o) ==
    [name |-> ObjGet(o, <<"name">>), features |-> ObjGet(o, <<"features">>)]

\* C21: when the LLM extraction fails for one source, the candidates of
\* every other source are still in the list the extraction stage returns.
C21_SourceFailureIsolated ==
    LlmStepEnded
        => \A i \in 1..Len(competitor_data) :
              competitor_data[i].url \notin failing
                  => \E k \in 1..Len(extracted) :
                        extracted[k] = EntryFor(MentionedIn(competitor_data[i]))

====
